---- MODULE Spec2Model ----
(***************************************************************************)
(* Resilience and concurrency-control layer of the transcript service:     *)
(*   RequestQueue   (src/unnamed/part_008)  - the Admission Queue          *)
(*   CircuitBreaker (src/unnamed/part_006)                                 *)
(*   BrowserPool    (src/unnamed/part_010)  - the Resource Pool            *)
(*   RetryManager   (src/unnamed/part_009)  - the Retry Controller         *)
(*   CacheManager   (src/lib/cache-manager.js, src/unnamed/part_007)       *)
(*   TranscriptExtractor.extract (src/services/transcript-extractor.js),   *)
(*                  for what it takes from the pool and gives back         *)
(* Each component is a state machine of its own; one specification per    *)
(* component steps that component and leaves the others at their initial   *)
(* state.  JavaScript is single-threaded: every action below is one run-   *)
(* to-completion turn of the event loop (a call, a timer callback, or the  *)
(* continuation of an awaited external operation).                         *)
(***************************************************************************)
EXTENDS Integers, Sequences, FiniteSets, Bags, TLC

VARIABLES
  \* ---- RequestQueue (part_008) ----
  queue,        \* this.queue: the backlog, a sequence of task ids
  processing,   \* this.processing: keys of the in-flight Map
  completed,    \* this.completed: keys of the completed Map
  item,         \* the queueItem objects, by task id
  requests,     \* this.rateLimiter.requests: the age (Date.now() - time, in
                \* ticks) of every recorded dispatch; an age past the window
                \* is kept as rateLimitWindow, for it is dropped whatever it is
  qStats,       \* this.stats: queued / completed / failed counters
  pqTimers,     \* some setTimeout(() => this.processQueue(), 1000) is pending
  nextId,       \* number of tasks accepted so far + 1
  qTicks,       \* ticks of the clock so far
  qRejected,    \* the last call on the queue was an enqueue that threw 'Queue is full'
  running,      \* per task: processItem frames suspended in executeRequest
  bypassed,     \* history: some dispatch overtook a waiting task (see C5)
  dispatched,   \* history: the age of every operation processItem started
                \* less than rateLimitWindow ago
  \* ---- CircuitBreaker (part_006) ----
  state,            \* this.state
  failures,         \* this.failures
  successes,        \* this.successes
  lastFailureTime,  \* this.lastFailureTime
  nextAttemptTime,  \* this.nextAttemptTime
  metrics,          \* this.metrics: totals and the stateChanges log
  bNow,             \* Date.now(), in ticks
  bPending,         \* operations started by execute and not yet settled
  bLast,            \* what the last execute call did: rejected or invoked
  openedAt,         \* history: when the state last went from not OPEN to OPEN
  consecFail,       \* history: failures since the last success, state change or reset
  consecSucc,       \* history: successes since the last failure, state change or reset
  \* ---- BrowserPool (part_010) ----
  pool,             \* this.pool: the instances, in the order they were pushed
  lru,              \* the ids of the pooled instances by lastUsed, oldest first
  activeContexts,   \* this.activeContexts, with the releaseContext calls in flight
  frames,           \* the suspended async calls of the pool, as a bag
  created,          \* this.stats.created
  acquires,         \* getBrowser calls so far
  sessions,         \* getContext calls so far
  checks,           \* performHealthCheck runs so far
  pTicks,           \* ticks of the pool's clock so far
  \* ---- TranscriptExtractor (services/transcript-extractor.js) ----
  extractions,      \* the extract calls: position, the locals browser and
                    \* contextId, and as history the outcome, whether the
                    \* queue's timer fired meanwhile, and the browser the
                    \* cleanup closed
  \* ---- RetryManager (part_009) ----
  rbRetries,        \* retryBudget.retries, as the ages of the timestamps
  rCalls,           \* the executeWithRetry calls: position, attempt, lastError,
                    \* and as history the retries the call has issued (operation
                    \* invoked with attempt >= 1) and the timestamps it has
                    \* added to the budget
  rTicks,           \* ticks of the retry manager's clock so far
  dCfg,             \* baseDelay, maxDelay, factor and jitter of a RetryManager
  dLast,            \* the last calculateDelay call: arguments and result
  \* ---- CacheManager (lib/cache-manager.js and part_007) ----
  cImpl,            \* which of the two CacheManager classes was constructed
  cCache,           \* this.cache: key -> [age, ttl]
  accessOrder,      \* this.accessOrder
  cStats,           \* this.stats: hits, misses, evictions
  cRecency,         \* history: the keys by their last use (set or get hit)
  cOps,             \* cache operations so far
  cTicks,           \* ticks of the cache's clock so far
  kCalls            \* the last two generateKey calls: arguments and result

queueVars == <<queue, processing, completed, item, requests, qStats, pqTimers,
               nextId, qTicks, qRejected, running, bypassed, dispatched>>

breakerVars == <<state, failures, successes, lastFailureTime, nextAttemptTime,
                 metrics, bNow, bPending, bLast, openedAt, consecFail, consecSucc>>

poolVars == <<pool, lru, activeContexts, frames, created, acquires, sessions,
              checks, pTicks>>

extractVars == <<extractions>>

retryVars == <<rbRetries, rCalls, rTicks>>

delayVars == <<dCfg, dLast>>

cacheVars == <<cImpl, cCache, accessOrder, cStats, cRecency, cOps, cTicks>>

keyVars == <<kCalls>>

vars == <<queueVars, breakerVars, poolVars, extractVars, retryVars, delayVars,
         cacheVars, keyVars>>

\* A step of one component leaves the other components alone.
QueueOnly ==
  UNCHANGED <<breakerVars, poolVars, retryVars, delayVars, cacheVars,
              keyVars, extractVars>>
BreakerOnly ==
  UNCHANGED <<queueVars, poolVars, retryVars, delayVars, cacheVars,
              keyVars, extractVars>>
PoolOnly ==
  UNCHANGED <<queueVars, breakerVars, extractVars, retryVars, delayVars,
              cacheVars, keyVars>>
\* A step of an extraction is a step of the pool as well.
ExtractOnly ==
  UNCHANGED <<queueVars, breakerVars, retryVars, delayVars, cacheVars, keyVars>>
RetryOnly ==
  UNCHANGED <<queueVars, breakerVars, poolVars, delayVars, cacheVars,
              keyVars, extractVars>>
DelayOnly ==
  UNCHANGED <<queueVars, breakerVars, poolVars, retryVars, cacheVars,
              keyVars, extractVars>>
CacheOnly ==
  UNCHANGED <<queueVars, breakerVars, poolVars, retryVars, delayVars,
              keyVars, extractVars>>
KeyOnly ==
  UNCHANGED <<queueVars, breakerVars, poolVars, retryVars, delayVars,
              cacheVars, extractVars>>

Min(a, b) == IF a < b THEN a ELSE b
Max(a, b) == IF a > b THEN a ELSE b

(***************************************************************************)
(*                         RequestQueue                                    *)
(***************************************************************************)

\* ---- bounds of the model ----
MaxTasks == 3          \* tasks ever accepted by enqueue
MaxTicks == 1          \* ticks of the queue's clock
MaxItemRetries == 1    \* largest options.maxRetries a caller passes

\* ---- configuration (constructor options) ----
maxConcurrent == 2
maxQueueSize == 2
rateLimitMax == 2
rateLimitWindow == 1

\* ---- this.priorities ----
HIGH == 3
NORMAL == 2
LOW == 1

Priorities == {LOW, NORMAL, HIGH}
TaskIds == 1..MaxTasks

\* Errors an operation can throw: [code, status]; status 0 stands for undefined.
ErrReset == [code |-> "ECONNRESET", status |-> 0]
ErrBadRequest == [code |-> "NONE", status |-> 400]
ErrUnavailable == [code |-> "NONE", status |-> 503]
ErrTimeout == [code |-> "TIMEOUT", status |-> 0]
OpErrors == {ErrReset, ErrBadRequest, ErrUnavailable}

\* timedOut is history: the task's timer has fired and found the task
NoItem == [status |-> "none", priority |-> 0, retries |-> 0, maxRetries |-> 0,
           timer |-> FALSE, settled |-> "none", error |-> "NONE", started |-> FALSE,
           timedOut |-> FALSE]

\* The queue's state as one record, so that handlers compose as functions.
QState == [queue |-> queue, processing |-> processing, completed |-> completed,
           item |-> item, requests |-> requests, qStats |-> qStats,
           pqTimers |-> pqTimers, running |-> running, bypassed |-> bypassed,
           dispatched |-> dispatched]

SetQState(s) ==
  /\ queue' = s.queue
  /\ processing' = s.processing
  /\ completed' = s.completed
  /\ item' = s.item
  /\ requests' = s.requests
  /\ qStats' = s.qStats
  /\ pqTimers' = s.pqTimers
  /\ running' = s.running
  /\ bypassed' = s.bypassed
  /\ dispatched' = s.dispatched

\* isRetryable(error)
isRetryable(error) ==
  \/ error.code \in {"TIMEOUT", "ECONNRESET", "ETIMEDOUT"}
  \/ error.status >= 500
  \/ error.status = 429

\* Index at which insertByPriority splices item t: before the first queued
\* task of strictly lower priority, else at the end.
InsertIndex(q, it, p) ==
  LET lower == {i \in 1..Len(q) : p > it[q[i]].priority}
  IN IF lower = {} THEN Len(q) + 1
     ELSE CHOOSE i \in lower : \A j \in lower : i <= j

\* insertByPriority(item)
insertByPriority(s, t) ==
  LET i == InsertIndex(s.queue, s.item, s.item[t].priority)
  IN [s EXCEPT !.queue = SubSeq(s.queue, 1, i - 1) \o <<t>> \o
                          SubSeq(s.queue, i, Len(s.queue))]

\* checkRateLimit(): drops the timestamps outside the window (a side effect).
\* time > now - windowMs, with age = now - time
FilterRequests(reqs) ==
  SelectSeq(reqs, LAMBDA age : age < rateLimitWindow)

\* recordRateLimitRequest with the push left out
recordRateLimitRequest_Skip(s) == s

\* recordRateLimitRequest(): this.rateLimiter.requests.push(Date.now())
recordRateLimitRequest(s) == [s EXCEPT !.requests = Append(@, 0)]

\* Task ids are handed out in the order of the enqueue calls: u < t says that
\* u was enqueued before t.  Overtakes: a never-dispatched task u still waits
\* while the never-dispatched task t is dispatched, although u has a higher
\* priority, or the same priority and was enqueued earlier.
Overtakes(s, t, rest) ==
  /\ ~s.item[t].started
  /\ \E i \in 1..Len(rest) :
       LET u == rest[i] IN
         /\ u # t
         /\ ~s.item[u].started
         /\ \/ s.item[u].priority > s.item[t].priority
            \/ /\ s.item[u].priority = s.item[t].priority
               /\ u < t

\* The task processQueue takes next: this.queue.shift()
NextIndex(q) == 1

\* processItemStart without the entry in the in-flight Map
processItemStart_Unregistered(s, t) ==
  LET s1 == [s EXCEPT !.item[t].status = "processing",
                      !.item[t].started = TRUE]
      s2 == recordRateLimitRequest(s1)
  IN [s2 EXCEPT !.running[t] = @ + 1,
                !.dispatched = Append(@, 0)]

\* processItem(item) up to its await: the task becomes in-flight, the dispatch
\* is recorded with the rate limiter and the caller's operation is started.
processItemStart(s, t) ==
  LET s1 == [s EXCEPT !.item[t].status = "processing",
                      !.item[t].started = TRUE,
                      !.processing = s.processing \cup {t}]
      s2 == recordRateLimitRequest(s1)
  IN [s2 EXCEPT !.running[t] = @ + 1,
                !.dispatched = Append(@, 0)]

\* SlotFree with the comparison off by one
SlotFree_OffByOne(s) == Cardinality(s.processing) <= maxConcurrent

\* The concurrency guard of processQueue's loop
SlotFree(s) == Cardinality(s.processing) < maxConcurrent

\* processQueue(): dispatch while a slot is free and the limiter has budget
RECURSIVE processQueue(_)
processQueue(s) ==
  IF SlotFree(s) /\ Len(s.queue) > 0
  THEN LET s1 == [s EXCEPT !.requests = FilterRequests(s.requests)]
       IN IF ~(Len(s1.requests) < rateLimitMax)
          THEN [s1 EXCEPT !.pqTimers = TRUE]
          ELSE LET k == NextIndex(s1.queue)
                   t == s1.queue[k]
                   rest == SubSeq(s1.queue, 1, k - 1) \o
                           SubSeq(s1.queue, k + 1, Len(s1.queue))
                   s2 == [s1 EXCEPT !.queue = rest,
                                    !.bypassed = @ \/ Overtakes(s1, t, rest)]
               IN processQueue(processItemStart(s2, t))
  ELSE s

\* handleSuccess(item, result)
handleSuccess(s, t) ==
  LET s1 == [s EXCEPT !.item[t].timer = FALSE,
                      !.item[t].status = "completed",
                      !.processing = s.processing \ {t},
                      !.completed = s.completed \cup {t},
                      !.qStats.completed = @ + 1,
                      !.item[t].settled =
                         IF @ = "pending" THEN "resolved" ELSE @]
  IN processQueue(s1)

\* The retry branch of handleFailure
RetryBranch(s, t) ==
  LET s1 == [s EXCEPT !.item[t].retries = @ + 1,
                      !.item[t].status = "retrying",
                      !.item[t].priority = Min(@ + 1, HIGH),
                      !.processing = s.processing \ {t}]
  IN insertByPriority(s1, t)

\* The final-failure branch of handleFailure
FinalFailureBranch(s, t, error) ==
  [s EXCEPT !.item[t].timer = FALSE,
            !.item[t].status = "failed",
            !.processing = s.processing \ {t},
            !.qStats.failed = @ + 1,
            !.item[t].error = IF s.item[t].settled = "pending" THEN error.code ELSE @,
            !.item[t].settled = IF @ = "pending" THEN "rejected" ELSE @]

\* The condition under which handleFailure retries
ShouldRetry(s, t, error) ==
  s.item[t].retries < s.item[t].maxRetries /\ isRetryable(error)

\* handleFailure(item, error)
handleFailure(s, t, error) ==
  LET s1 == IF ShouldRetry(s, t, error)
            THEN RetryBranch(s, t)
            ELSE FinalFailureBranch(s, t, error)
  IN processQueue(s1)

\* handleTimeout(id): the timer has fired
handleTimeout(s, t) ==
  LET s0 == [s EXCEPT !.item[t].timer = FALSE]
      found == t \in s0.processing \/ \E i \in 1..Len(s0.queue) : s0.queue[i] = t
  IN IF ~found THEN s0
     ELSE handleFailure([s0 EXCEPT !.item[t].timedOut = TRUE], t, ErrTimeout)

\* enqueue(request, options) on a backlog with room
EnqueueAccept(s, t, p, mr) ==
  LET s1 == [s EXCEPT !.item[t] = [status |-> "queued", priority |-> p,
                                    retries |-> 0, maxRetries |-> mr,
                                    timer |-> TRUE, settled |-> "pending",
                                    error |-> "NONE", started |-> FALSE,
                                    timedOut |-> FALSE]]
      s2 == insertByPriority(s1, t)
      s3 == [s2 EXCEPT !.qStats.queued = @ + 1]
  IN processQueue(s3)

\* QueueIsFull with the comparison off by one
QueueIsFull_OffByOne(s) == Len(s.queue) > maxQueueSize

\* The size check of enqueue
QueueIsFull(s) == Len(s.queue) >= maxQueueSize

\* EnqueueReject with the queued counter bumped before the size check
EnqueueReject_CountsFirst(s) == [s EXCEPT !.qStats.queued = @ + 1]

\* enqueue(request, options) on a full backlog: throws before any mutation
EnqueueReject(s) == s

InitQueue ==
  /\ queue = <<>>
  /\ processing = {}
  /\ completed = {}
  /\ item = [t \in TaskIds |-> NoItem]
  /\ requests = <<>>
  /\ qStats = [queued |-> 0, completed |-> 0, failed |-> 0]
  /\ pqTimers = FALSE
  /\ nextId = 1
  /\ qTicks = 0
  /\ qRejected = FALSE
  /\ running = [t \in TaskIds |-> 0]
  /\ bypassed = FALSE
  /\ dispatched = <<>>

\* A caller calls enqueue
Enqueue(p, mr) ==
  /\ QueueOnly
  /\ IF QueueIsFull(QState)
     THEN /\ SetQState(EnqueueReject(QState))
          /\ qRejected' = TRUE
          /\ UNCHANGED <<nextId, qTicks>>
     ELSE /\ nextId <= MaxTasks
          /\ SetQState(EnqueueAccept(QState, nextId, p, mr))
          /\ nextId' = nextId + 1
          /\ qRejected' = FALSE
          /\ UNCHANGED qTicks

\* The operation of task t resolves: processItem resumes into handleSuccess
OpSucceeds(t) ==
  /\ QueueOnly
  /\ running[t] > 0
  /\ SetQState(handleSuccess([QState EXCEPT !.running[t] = @ - 1], t))
  /\ qRejected' = FALSE
  /\ UNCHANGED <<nextId, qTicks>>

\* The operation of task t throws: processItem resumes into handleFailure
OpFails(t, error) ==
  /\ QueueOnly
  /\ running[t] > 0
  /\ SetQState(handleFailure([QState EXCEPT !.running[t] = @ - 1], t, error))
  /\ qRejected' = FALSE
  /\ UNCHANGED <<nextId, qTicks>>

\* The timer set by enqueue fires
Timeout(t) ==
  /\ QueueOnly
  /\ item[t].timer
  /\ SetQState(handleTimeout(QState, t))
  /\ qRejected' = FALSE
  /\ UNCHANGED <<nextId, qTicks>>

\* A timer set by processQueue on a rate-limit stop fires.  Several such
\* timers may be pending; the ones after the first find the queue as the
\* last handler's own processQueue left it, unless that one stopped at the
\* rate limit and set a timer again.
ProcessQueueTimer ==
  /\ QueueOnly
  /\ pqTimers
  /\ SetQState(processQueue([QState EXCEPT !.pqTimers = FALSE]))
  /\ qRejected' = FALSE
  /\ UNCHANGED <<nextId, qTicks>>

\* Time passes: every recorded dispatch grows one tick older
QueueTick ==
  /\ QueueOnly
  /\ qTicks < MaxTicks
  /\ qTicks' = qTicks + 1
  /\ requests' = [i \in 1..Len(requests) |-> Min(requests[i] + 1, rateLimitWindow)]
  /\ dispatched' = FilterRequests([i \in 1..Len(dispatched) |-> dispatched[i] + 1])
  /\ qRejected' = FALSE
  /\ UNCHANGED <<queue, processing, completed, item, qStats, pqTimers,
                 nextId, running, bypassed>>

NextQueue ==
  \/ \E p \in Priorities, mr \in 1..MaxItemRetries : Enqueue(p, mr)
  \/ \E t \in TaskIds : OpSucceeds(t)
  \/ \E t \in TaskIds, e \in OpErrors : OpFails(t, e)
  \/ \E t \in TaskIds : Timeout(t)
  \/ ProcessQueueTimer
  \/ QueueTick

(***************************************************************************)
(*                         CircuitBreaker                                  *)
(***************************************************************************)

\* ---- bounds of the model ----
MaxRequests == 6       \* execute calls made on the breaker
MaxTime == 3           \* last tick of the breaker's clock

\* ---- configuration (constructor options) ----
failureThreshold == 2
resetTimeout == 2

\* Successes in HALF_OPEN that close the circuit
halfOpenSuccesses == 3

\* null
Null == -1

\* The breaker's state as one record, so that its methods compose.
BState == [state |-> state, failures |-> failures, successes |-> successes,
           lastFailureTime |-> lastFailureTime, nextAttemptTime |-> nextAttemptTime,
           metrics |-> metrics, openedAt |-> openedAt]

SetBState(b) ==
  /\ state' = b.state
  /\ failures' = b.failures
  /\ successes' = b.successes
  /\ lastFailureTime' = b.lastFailureTime
  /\ nextAttemptTime' = b.nextAttemptTime
  /\ metrics' = b.metrics
  /\ openedAt' = b.openedAt

\* setState(newState)
setState(b, newState, now) ==
  LET b1 == [b EXCEPT !.state = newState,
                      !.metrics.stateChanges =
                         Append(@, [from |-> b.state, to |-> newState]),
                      !.openedAt = IF newState = "OPEN" /\ b.state # "OPEN"
                                   THEN now ELSE @]
  IN IF newState = "OPEN"
     THEN [b1 EXCEPT !.nextAttemptTime = now + resetTimeout,
                     !.failures = 0,
                     !.successes = 0]
     ELSE b1

\* EnoughSuccesses with the comparison off by one
EnoughSuccesses_OffByOne(n) == n > halfOpenSuccesses

\* The test of onSuccess that closes the circuit
EnoughSuccesses(n) == n >= halfOpenSuccesses

\* onSuccess()
onSuccess(b, now) ==
  LET b1 == [b EXCEPT !.metrics.totalSuccesses = @ + 1,
                      !.failures = 0]
  IN IF b1.state = "HALF_OPEN"
     THEN LET b2 == [b1 EXCEPT !.successes = @ + 1]
          IN IF EnoughSuccesses(b2.successes)
             THEN [setState(b2, "CLOSED", now) EXCEPT !.successes = 0]
             ELSE b2
     ELSE b1

\* ThresholdReached with the comparison off by one
ThresholdReached_OffByOne(n) == n > failureThreshold

\* The test of onFailure that opens the circuit
ThresholdReached(n) == n >= failureThreshold

\* onFailure()
onFailure(b, now) ==
  LET b1 == [b EXCEPT !.metrics.totalFailures = @ + 1,
                      !.failures = @ + 1,
                      !.lastFailureTime = now]
  IN IF b1.state = "HALF_OPEN"
     THEN setState(b1, "OPEN", now)
     ELSE IF ThresholdReached(b1.failures)
          THEN setState(b1, "OPEN", now)
          ELSE b1

\* The fast-fail test of execute
StillOpen(b, now) == b.state = "OPEN" /\ now < b.nextAttemptTime

\* executeStart with the fast-fail error thrown inside the try block, so that
\* the catch counts it as a failure of the operation
executeStart_ThrowsInTry(b, now) ==
  LET b1 == [b EXCEPT !.metrics.totalRequests = @ + 1]
  IN IF StillOpen(b1, now) THEN onFailure(b1, now)
     ELSE IF b1.state = "OPEN" THEN setState(b1, "HALF_OPEN", now)
     ELSE b1

\* execute(operation) up to the call of the operation
executeStart(b, now) ==
  LET b1 == [b EXCEPT !.metrics.totalRequests = @ + 1]
  IN IF StillOpen(b1, now) THEN b1
     ELSE IF b1.state = "OPEN" THEN setState(b1, "HALF_OPEN", now)
     ELSE b1

\* reset with the next-retry time left as it was
reset_KeepsNextAttempt(b) ==
  [b EXCEPT !.state = "CLOSED",
            !.failures = 0,
            !.successes = 0,
            !.lastFailureTime = Null]

\* reset()
reset(b) ==
  [b EXCEPT !.state = "CLOSED",
            !.failures = 0,
            !.successes = 0,
            !.lastFailureTime = Null,
            !.nextAttemptTime = Null]

InitBreaker ==
  /\ state = "CLOSED"
  /\ failures = 0
  /\ successes = 0
  /\ lastFailureTime = Null
  /\ nextAttemptTime = Null
  /\ metrics = [totalRequests |-> 0, totalFailures |-> 0, totalSuccesses |-> 0,
                stateChanges |-> <<>>]
  /\ bNow = 0
  /\ bPending = 0
  /\ bLast = "none"
  /\ openedAt = Null
  /\ consecFail = 0
  /\ consecSucc = 0

\* A caller calls execute: the call is rejected, or the operation is started
Execute ==
  /\ BreakerOnly
  /\ metrics.totalRequests < MaxRequests
  /\ SetBState(executeStart(BState, bNow))
  /\ IF StillOpen(BState, bNow)
     THEN bPending' = bPending /\ bLast' = "rejected"
     ELSE bPending' = bPending + 1 /\ bLast' = "invoked"
  /\ consecFail' = IF state' # state THEN 0 ELSE consecFail
  /\ consecSucc' = IF state' # state THEN 0 ELSE consecSucc
  /\ UNCHANGED bNow

\* A started operation resolves: execute resumes into onSuccess
OperationResolves ==
  /\ BreakerOnly
  /\ bPending > 0
  /\ bPending' = bPending - 1
  /\ SetBState(onSuccess(BState, bNow))
  /\ consecFail' = 0
  /\ consecSucc' = IF state' # state THEN 0 ELSE consecSucc + 1
  /\ UNCHANGED <<bNow, bLast>>

\* A started operation throws: execute resumes into onFailure
OperationThrows ==
  /\ BreakerOnly
  /\ bPending > 0
  /\ bPending' = bPending - 1
  /\ SetBState(onFailure(BState, bNow))
  /\ consecSucc' = 0
  /\ consecFail' = IF state' # state THEN 0 ELSE consecFail + 1
  /\ UNCHANGED <<bNow, bLast>>

\* A caller calls reset
Reset ==
  /\ BreakerOnly
  /\ SetBState(reset(BState))
  /\ consecFail' = 0
  /\ consecSucc' = 0
  /\ UNCHANGED <<bNow, bPending, bLast>>

\* Time passes
BreakerTick ==
  /\ BreakerOnly
  /\ bNow < MaxTime
  /\ bNow' = bNow + 1
  /\ UNCHANGED <<state, failures, successes, lastFailureTime, nextAttemptTime,
                 metrics, bPending, bLast, openedAt, consecFail, consecSucc>>

NextBreaker ==
  \/ Execute
  \/ OperationResolves
  \/ OperationThrows
  \/ Reset
  \/ BreakerTick

(***************************************************************************)
(*                           BrowserPool                                   *)
(* The counters of this.stats other than created, and usageCount, are      *)
(* written and never read by the pool; they are left out.                  *)
(***************************************************************************)

\* ---- bounds of the model ----
MaxLaunches == 3       \* chromium.launch calls that succeed or are pending
MaxAcquires == 6       \* getBrowser calls
MaxCallers == 2        \* getBrowser calls suspended at the same time
MaxChecks == 1         \* performHealthCheck runs
MaxShrinks == 1        \* checkMemoryPressure runs suspended at the same time
MaxRounds == 3         \* getBrowser calls while instances are destroyed
MaxPoolTicks == 2      \* ticks of the pool's clock

\* ---- configuration (constructor options) ----
minInstances == 1
maxInstances == 2
browserTimeout == 1

\* Max 5 contexts per browser
maxContextsPerBrowser == 5

\* Ages are counted up to the first value past browserTimeout.
AgeCap == browserTimeout + 1

\* The pool's state as one record, so that its methods compose.
PState == [pool |-> pool, lru |-> lru, activeContexts |-> activeContexts,
           frames |-> frames, created |-> created]

SetPState(s) ==
  /\ pool' = s.pool
  /\ lru' = s.lru
  /\ activeContexts' = s.activeContexts
  /\ frames' = s.frames
  /\ created' = s.created

Suspend(s, f) == [s EXCEPT !.frames = @ (+) SetToBag({f})]
Resume(s, f) == [s EXCEPT !.frames = @ (-) SetToBag({f})]

\* Frames suspended in chromium.launch
LaunchKinds == {"initLaunch", "gbFill", "gbCreate", "hcCreate"}
\* Frames of getBrowser
GetBrowserKinds == {"gbClose", "gbFill", "gbCreate", "gbWait"}

RECURSIVE CountFrames(_, _)
CountFrames(fs, kinds) ==
  IF BagToSet(fs) = {} THEN 0
  ELSE LET f == CHOOSE x \in BagToSet(fs) : TRUE
           rest == [x \in BagToSet(fs) \ {f} |-> fs[x]]
       IN (IF f.k \in kinds THEN fs[f] ELSE 0) + CountFrames(rest, kinds)

PoolIds(s) == {s.pool[i].id : i \in 1..Len(s.pool)}
InstanceOf(s, b) == CHOOSE i \in 1..Len(s.pool) : s.pool[i].id = b

\* removeBrowserFromPool(browser)
removeBrowserFromPool(s, b) ==
  [s EXCEPT !.pool = SelectSeq(s.pool, LAMBDA inst : inst.id # b),
            !.lru = SelectSeq(s.lru, LAMBDA id : id # b)]

\* createBrowserInstance() after chromium.launch has resolved
createBrowserInstance(s) ==
  LET b == s.created + 1
  IN [s EXCEPT !.pool = Append(@, [id |-> b, age |-> 0, idle |-> 0, contexts |-> 0]),
               !.lru = Append(@, b),
               !.created = @ + 1]

\* The filter of cleanupStaleInstances
IsStale(inst) == inst.age > browserTimeout \/ inst.idle > browserTimeout

StaleInstances(s) ==
  LET st == SelectSeq(s.pool, IsStale)
  IN [i \in 1..Len(st) |-> st[i].id]

\* The capacity test of findAvailableBrowser
HasCapacity(inst) == inst.contexts < maxContextsPerBrowser

\* The predicate of findAvailableBrowser's find
IsAvailable(inst) == inst.age < browserTimeout /\ HasCapacity(inst)

\* findAvailableBrowser(): the id of the least recently used instance that is
\* healthy and has capacity, or 0
findAvailableBrowser(s) ==
  LET ok == {i \in 1..Len(s.lru) : IsAvailable(s.pool[InstanceOf(s, s.lru[i])])}
  IN IF ok = {} THEN 0
     ELSE s.lru[CHOOSE i \in ok : \A j \in ok : i <= j]

\* The end of getBrowser: the usage stats are updated and the browser returned
ReturnBrowser(s, b) ==
  LET s1 == IF b \in PoolIds(s)
            THEN [s EXCEPT !.pool[InstanceOf(s, b)].idle = 0,
                           !.lru = Append(SelectSeq(s.lru, LAMBDA id : id # b), b)]
            ELSE s
  IN Suspend(s1, [k |-> "got", b |-> b])

\* The test of getBrowser that allows a new instance
BelowMax(s) == Len(s.pool) < maxInstances

\* getBrowser() from findAvailableBrowser on
FindOrCreate(s) ==
  LET b == findAvailableBrowser(s)
  IN IF b # 0 THEN ReturnBrowser(s, b)
     ELSE IF BelowMax(s) THEN Suspend(s, [k |-> "gbCreate"])
     ELSE Suspend(s, [k |-> "gbWait"])

\* The loop of cleanupStaleInstances that refills the pool, then the rest of
\* getBrowser
FillOrFind(s) ==
  IF Len(s.pool) < minInstances
  THEN Suspend(s, [k |-> "gbFill"])
  ELSE FindOrCreate(s)

\* cleanupStaleInstances() from the destroy loop on, st the instances left to
\* destroy
CleanupFrom(s, st) ==
  IF st # <<>>
  THEN Suspend(s, [k |-> "gbClose", rest |-> st])
  ELSE FillOrFind(s)

\* getBrowser() up to its first suspension
getBrowser(s) == CleanupFrom(s, StaleInstances(s))

\* performHealthCheck() from the replace loop on, un the instances left to
\* replace
ReplaceFrom(s, un) ==
  IF un # <<>>
  THEN Suspend(s, [k |-> "hcClose", rest |-> un])
  ELSE s

\* The launches that have succeeded or are pending stay within the bound
LaunchesBounded(s) == s.created + CountFrames(s.frames, LaunchKinds) <= MaxLaunches

InitPool ==
  /\ pool = <<>>
  /\ lru = <<>>
  /\ activeContexts = EmptyBag
  /\ frames = [f \in {[k |-> "initLaunch"]} |-> minInstances]
  /\ created = 0
  /\ acquires = 0
  /\ sessions = 0
  /\ checks = 0
  /\ pTicks = 0

\* The pool under full load: maxInstances instances, each with all of its
\* sessions granted and none released yet, the initial fill long over
InitPoolLoaded ==
  /\ pool = [b \in 1..maxInstances |->
               [id |-> b, age |-> 0, idle |-> 0, contexts |-> maxContextsPerBrowser]]
  /\ lru = [b \in 1..maxInstances |-> b]
  /\ activeContexts = [c \in {[b |-> b, timer |-> TRUE, callerDone |-> FALSE,
                                closers |-> 0, inMap |-> TRUE] : b \in 1..maxInstances}
                         |-> maxContextsPerBrowser]
  /\ frames = EmptyBag
  /\ created = maxInstances
  /\ acquires = 0
  /\ sessions = 0
  /\ checks = 0
  /\ pTicks = 0

\* A step of the pool to the state s, the budgets left alone
PoolStep(s) ==
  /\ PoolOnly
  /\ LaunchesBounded(s)
  /\ SetPState(s)

\* initializePool: one of its launches resolves (ok) or rejects
InitLaunchDone(ok) ==
  LET f == [k |-> "initLaunch"]
      s == Resume(PState, f)
  IN /\ BagIn(f, frames)
     /\ PoolStep(IF ok THEN createBrowserInstance(s) ELSE s)
     /\ UNCHANGED <<acquires, sessions, checks, pTicks>>

\* A caller calls getBrowser
GetBrowserCall ==
  /\ acquires < MaxAcquires
  /\ CountFrames(frames, GetBrowserKinds) < MaxCallers
  /\ acquires' = acquires + 1
  /\ PoolStep(getBrowser(PState))
  /\ UNCHANGED <<sessions, checks, pTicks>>

\* destroyInstance resumes after browser.close() inside cleanupStaleInstances
CleanupCloseDone(st) ==
  LET f == [k |-> "gbClose", rest |-> st]
      s == removeBrowserFromPool(Resume(PState, f), Head(st))
  IN /\ BagIn(f, frames)
     /\ PoolStep(CleanupFrom(s, Tail(st)))
     /\ UNCHANGED <<acquires, sessions, checks, pTicks>>

\* The launch of cleanupStaleInstances' refill loop resolves or rejects
FillLaunchDone(ok) ==
  LET f == [k |-> "gbFill"]
      s == Resume(PState, f)
  IN /\ BagIn(f, frames)
     /\ PoolStep(IF ok THEN FillOrFind(createBrowserInstance(s)) ELSE s)
     /\ UNCHANGED <<acquires, sessions, checks, pTicks>>

\* The launch of getBrowser's own createBrowserInstance resolves or rejects
CreateLaunchDone(ok) ==
  LET f == [k |-> "gbCreate"]
      s == Resume(PState, f)
  IN /\ BagIn(f, frames)
     /\ PoolStep(IF ok THEN ReturnBrowser(createBrowserInstance(s), s.created + 1)
                  ELSE s)
     /\ UNCHANGED <<acquires, sessions, checks, pTicks>>

\* waitForAvailableBrowser polls and finds an instance
WaitPollFinds ==
  LET f == [k |-> "gbWait"]
      s == Resume(PState, f)
      b == findAvailableBrowser(s)
  IN /\ BagIn(f, frames)
     /\ b # 0
     /\ PoolStep(ReturnBrowser(s, b))
     /\ UNCHANGED <<acquires, sessions, checks, pTicks>>

\* waitForAvailableBrowser runs out of time: getBrowser throws
WaitTimesOut ==
  LET f == [k |-> "gbWait"]
  IN /\ BagIn(f, frames)
     /\ PoolStep(Resume(PState, f))
     /\ UNCHANGED <<acquires, sessions, checks, pTicks>>

\* The caller of getBrowser does not go on to getContext
CallerLeaves(b) ==
  LET f == [k |-> "got", b |-> b]
  IN /\ BagIn(f, frames)
     /\ PoolStep(Resume(PState, f))
     /\ UNCHANGED <<acquires, sessions, checks, pTicks>>

\* The 'disconnected' event of a pooled browser that died
Disconnected(b) ==
  /\ b \in PoolIds(PState)
  /\ PoolStep(removeBrowserFromPool(PState, b))
  /\ UNCHANGED <<acquires, sessions, checks, pTicks>>

\* The interval timer runs performHealthCheck, whose probe fails for the
\* instances un (in pool order)
HealthCheck(un) ==
  /\ checks < MaxChecks
  /\ checks' = checks + 1
  /\ un # <<>>
  /\ un = SelectSeq([i \in 1..Len(pool) |-> pool[i].id],
                    LAMBDA b : \E j \in 1..Len(un) : un[j] = b)
  /\ PoolStep(ReplaceFrom(PState, un))
  /\ UNCHANGED <<acquires, sessions, pTicks>>

\* destroyInstance resumes after browser.close() inside performHealthCheck,
\* which goes on to createBrowserInstance
HealthCloseDone(un) ==
  LET f == [k |-> "hcClose", rest |-> un]
      s == removeBrowserFromPool(Resume(PState, f), Head(un))
  IN /\ BagIn(f, frames)
     /\ PoolStep(Suspend(s, [k |-> "hcCreate", rest |-> Tail(un)]))
     /\ UNCHANGED <<acquires, sessions, checks, pTicks>>

\* The launch of performHealthCheck resolves or rejects
HealthLaunchDone(un, ok) ==
  LET f == [k |-> "hcCreate", rest |-> un]
      s == Resume(PState, f)
  IN /\ BagIn(f, frames)
     /\ PoolStep(IF ok THEN ReplaceFrom(createBrowserInstance(s), un) ELSE s)
     /\ UNCHANGED <<acquires, sessions, checks, pTicks>>

\* Time passes: every instance grows one tick older and idler
PoolTick ==
  /\ pTicks < MaxPoolTicks
  /\ pTicks' = pTicks + 1
  /\ PoolStep([PState EXCEPT !.pool =
        [i \in 1..Len(pool) |->
           [pool[i] EXCEPT !.age = Min(@ + 1, AgeCap), !.idle = Min(@ + 1, AgeCap)]]])
  /\ UNCHANGED <<acquires, sessions, checks>>

\* The instance checkMemoryPressure's find picks: the first of the pool with
\* no contexts, or 0
findIdle(s) ==
  LET idle == {i \in 1..Len(s.pool) : s.pool[i].contexts = 0}
  IN IF idle = {} THEN 0
     ELSE s.pool[CHOOSE i \in idle : \A j \in idle : i <= j].id

\* checkMemoryPressure() with the heap above the threshold, up to its
\* suspension in destroyInstance
checkMemoryPressure(s) ==
  IF Len(s.pool) > minInstances /\ findIdle(s) # 0
  THEN Suspend(s, [k |-> "mpClose", b |-> findIdle(s)])
  ELSE s

\* The interval timer runs checkMemoryPressure and finds the heap above the
\* threshold
MemoryPressure ==
  /\ CountFrames(frames, {"mpClose"}) < MaxShrinks
  /\ checkMemoryPressure(PState) # PState
  /\ PoolStep(checkMemoryPressure(PState))
  /\ UNCHANGED <<acquires, sessions, checks, pTicks>>

\* destroyInstance resumes after browser.close() inside checkMemoryPressure
MemoryCloseDone(b) ==
  LET f == [k |-> "mpClose", b |-> b]
  IN /\ BagIn(f, frames)
     /\ PoolStep(removeBrowserFromPool(Resume(PState, f), b))
     /\ UNCHANGED <<acquires, sessions, checks, pTicks>>

\* The entry of activeContexts that getContext sets for a context of browser
\* b: its cleanup timer is armed, its caller has not released it, no
\* releaseContext call is suspended in its close(), it is in the map
NewEntry(b) ==
  [b |-> b, timer |-> TRUE, callerDone |-> FALSE, closers |-> 0, inMap |-> TRUE]

\* An entry replaced by another in activeContexts
ReplaceEntry(s, c, d) ==
  [s EXCEPT !.activeContexts = (@ (-) SetToBag({c})) (+) SetToBag({d})]

\* The increment of getContext
CountContext(s, b) ==
  IF b \in PoolIds(s)
  THEN [s EXCEPT !.pool[InstanceOf(s, b)].contexts = @ + 1]
  ELSE s

\* releaseContext without its decrement
UncountContext_Never(s, b) == s

\* The decrement of releaseContext
UncountContext(s, b) ==
  IF b \in PoolIds(s)
  THEN [s EXCEPT !.pool[InstanceOf(s, b)].contexts = Max(0, @ - 1)]
  ELSE s

\* getContext(browser) after browser.newContext() has resolved
getContextResume(s, b) ==
  CountContext([s EXCEPT !.activeContexts = @ (+) SetToBag({NewEntry(b)})], b)

\* releaseContext(contextId) up to its suspension in context.close()
releaseContextStart(s, c, byTimer) ==
  ReplaceEntry(s, c, [c EXCEPT !.closers = @ + 1,
                               !.timer = IF byTimer THEN FALSE ELSE @,
                               !.callerDone = IF byTimer THEN @ ELSE TRUE])

\* releaseContext(contextId) after context.close() has settled
releaseContextResume(s, c) ==
  LET s1 == UncountContext(s, c.b)
  IN IF c.closers = 1
     THEN [s1 EXCEPT !.activeContexts = @ (-) SetToBag({c})]
     ELSE ReplaceEntry(s1, c, [c EXCEPT !.closers = @ - 1, !.inMap = FALSE,
                                        !.timer = FALSE, !.callerDone = TRUE])

\* The caller of getBrowser calls getContext with the browser it got
GetContextCall(b) ==
  LET f == [k |-> "got", b |-> b]
  IN /\ BagIn(f, frames)
     /\ sessions' = sessions + 1
     /\ PoolStep(Suspend(Resume(PState, f), [k |-> "newContext", b |-> b]))
     /\ UNCHANGED <<acquires, checks, pTicks>>

\* browser.newContext() resolves (ok) or rejects; it resolves only for a
\* browser that nothing has closed
NewContextDone(b, ok) ==
  LET f == [k |-> "newContext", b |-> b]
      s == Resume(PState, f)
  IN /\ BagIn(f, frames)
     /\ ok => b \in PoolIds(PState)
     /\ PoolStep(IF ok THEN getContextResume(s, b) ELSE s)
     /\ UNCHANGED <<acquires, sessions, checks, pTicks>>

\* The caller releases its context
ReleaseCall(c) ==
  /\ BagIn(c, activeContexts)
  /\ c.inMap /\ ~c.callerDone
  /\ PoolStep(releaseContextStart(PState, c, FALSE))
  /\ UNCHANGED <<acquires, sessions, checks, pTicks>>

\* The cleanup timer of a context fires while the context is in the map
ContextTimer(c) ==
  /\ BagIn(c, activeContexts)
  /\ c.inMap /\ c.timer
  /\ PoolStep(releaseContextStart(PState, c, TRUE))
  /\ UNCHANGED <<acquires, sessions, checks, pTicks>>

\* context.close() settles for one releaseContext call
ContextCloseDone(c) ==
  /\ BagIn(c, activeContexts)
  /\ c.closers > 0
  /\ PoolStep(releaseContextResume(PState, c))
  /\ UNCHANGED <<acquires, sessions, checks, pTicks>>

\* The entries activeContexts can hold
Entries ==
  [b : 1..MaxLaunches, timer : BOOLEAN, callerDone : BOOLEAN, closers : 0..2,
   inMap : BOOLEAN]

\* The sequences of instance ids a frame can hold
IdSeqs == {<<>>} \cup {<<a>> : a \in 1..MaxLaunches}
          \cup {<<a, b>> : a, b \in 1..MaxLaunches}

\* The steps that change the size of the pool
NextPoolSize ==
  \/ \E ok \in BOOLEAN : InitLaunchDone(ok)
  \/ GetBrowserCall
  \/ \E st \in IdSeqs \ {<<>>} : CleanupCloseDone(st)
  \/ \E ok \in BOOLEAN : FillLaunchDone(ok)
  \/ \E ok \in BOOLEAN : CreateLaunchDone(ok)
  \/ WaitPollFinds
  \/ WaitTimesOut
  \/ \E b \in 1..MaxLaunches : CallerLeaves(b)
  \/ \E b \in 1..MaxLaunches : Disconnected(b)
  \/ \E un \in IdSeqs : HealthCheck(un)
  \/ \E un \in IdSeqs \ {<<>>} : HealthCloseDone(un)
  \/ \E un \in IdSeqs, ok \in BOOLEAN : HealthLaunchDone(un, ok)
  \/ PoolTick

\* The steps of acquiring and releasing sessions
NextPoolSessions ==
  \/ \E ok \in BOOLEAN : InitLaunchDone(ok)
  \/ GetBrowserCall
  \/ \E ok \in BOOLEAN : FillLaunchDone(ok)
  \/ \E ok \in BOOLEAN : CreateLaunchDone(ok)
  \/ \E b \in 1..MaxLaunches : GetContextCall(b)
  \/ \E b \in 1..MaxLaunches, ok \in BOOLEAN : NewContextDone(b, ok)
  \/ \E c \in Entries : ReleaseCall(c)
  \/ \E c \in Entries : ContextTimer(c)
  \/ \E c \in Entries : ContextCloseDone(c)

(***************************************************************************)
(*                    TranscriptExtractor.extract                          *)
(* What extract takes from the pool and gives back.  The steps between     *)
(* getContext and the end of the try block (the page, the navigation, the  *)
(* scraping) touch neither the pool nor the locals browser and contextId;  *)
(* they are one step that ends by returning or by throwing.  The lifetime  *)
(* timer of a context does not fire while its extraction runs.             *)
(***************************************************************************)

\* ---- bounds of the model ----
MaxExtractions == 2    \* extract calls

\* ---- configuration (constructor options) ----
\* options.browserPool is given
browserPool == TRUE

ExtractionIds == 1..MaxExtractions

\* An extract call that has not been made: browser 0 and contextId FALSE are
\* the locals left undefined
NoExtraction ==
  [pc |-> "idle", browser |-> 0, contextId |-> FALSE, outcome |-> "none",
   timedOut |-> FALSE, closed |-> 0]

\* The pool and one extract call, as what a step of extract returns
Both(s, x) == [s |-> s, x |-> x]

\* The getBrowser calls of the extractions that have not returned
PendingGetBrowser(s) == CountFrames(s.frames, GetBrowserKinds \cup {"got"})

\* The entry of activeContexts of an extraction in its try block
HeldEntry(s, b) ==
  CHOOSE c \in BagToSet(s.activeContexts) : c.b = b /\ c.inMap /\ ~c.callerDone

\* The entry of activeContexts whose release by its extraction is suspended
ReleasingEntry(s, b) ==
  CHOOSE c \in BagToSet(s.activeContexts) : c.b = b /\ c.callerDone /\ c.closers > 0

\* The finally block that releases the context only after a success
extractFinally_ReleaseOnSuccess(s, x) ==
  IF browserPool /\ x.contextId /\ x.outcome = "ok"
  THEN Both(releaseContextStart(s, HeldEntry(s, x.browser), FALSE),
            [x EXCEPT !.pc = "release"])
  ELSE IF x.browser # 0 /\ ~x.contextId
  THEN Both(s, [x EXCEPT !.pc = "close", !.closed = x.browser])
  ELSE Both(s, [x EXCEPT !.pc = "done"])

\* The finally block of extract, up to its suspension: with a pool and a
\* contextId the context is released, otherwise the browser, if there is
\* one, is closed (the local context is set together with contextId)
extractFinally(s, x) ==
  IF browserPool /\ x.contextId
  THEN Both(releaseContextStart(s, HeldEntry(s, x.browser), FALSE),
            [x EXCEPT !.pc = "release"])
  ELSE IF x.browser # 0
  THEN Both(s, [x EXCEPT !.pc = "close", !.closed = x.browser])
  ELSE Both(s, [x EXCEPT !.pc = "done"])

\* The catch block of extract (the error is rethrown), then the finally
extractCatch(s, x) == extractFinally(s, [x EXCEPT !.outcome = "failed"])

InitExtract == extractions = [x \in ExtractionIds |-> NoExtraction]

\* A step of extraction x to the pool state r.s and the locals r.x
ExtractStep(x, r) ==
  /\ ExtractOnly
  /\ LaunchesBounded(r.s)
  /\ SetPState(r.s)
  /\ extractions' = [extractions EXCEPT ![x] = r.x]
  /\ UNCHANGED <<checks, pTicks>>

\* extract(videoId) is called and calls browserPool.getBrowser(); the calls
\* are numbered in the order they are made
ExtractCall(x) ==
  /\ extractions[x].pc = "idle"
  /\ \A y \in ExtractionIds : y < x => extractions[y].pc # "idle"
  /\ acquires' = acquires + 1
  /\ ExtractStep(x, Both(getBrowser(PState),
                         [extractions[x] EXCEPT !.pc = "getBrowser"]))
  /\ UNCHANGED sessions

\* getBrowser returns browser b to extraction x, which calls getContext
ExtractGotBrowser(x, b) ==
  LET f == [k |-> "got", b |-> b]
  IN /\ extractions[x].pc = "getBrowser"
     /\ BagIn(f, frames)
     /\ sessions' = sessions + 1
     /\ ExtractStep(x, Both(Suspend(Resume(PState, f), [k |-> "newContext", b |-> b]),
                            [extractions[x] EXCEPT !.pc = "getContext",
                                                   !.browser = b]))
     /\ UNCHANGED acquires

\* The getBrowser call of extraction x has thrown (no instance within the
\* wait, or a launch that failed)
ExtractGetBrowserThrows(x) ==
  /\ extractions[x].pc = "getBrowser"
  /\ PendingGetBrowser(PState)
       < Cardinality({y \in ExtractionIds : extractions[y].pc = "getBrowser"})
  /\ ExtractStep(x, extractCatch(PState, extractions[x]))
  /\ UNCHANGED <<acquires, sessions>>

\* browser.newContext() of extraction x resolves (ok) or rejects; it resolves
\* only for a browser that nothing has closed
ExtractContextDone(x, ok) ==
  LET b == extractions[x].browser
      f == [k |-> "newContext", b |-> b]
      s == Resume(PState, f)
  IN /\ extractions[x].pc = "getContext"
     /\ BagIn(f, frames)
     /\ ok => b \in PoolIds(PState)
     /\ ExtractStep(x, IF ok
                       THEN Both(getContextResume(s, b),
                                 [extractions[x] EXCEPT !.pc = "body",
                                                        !.contextId = TRUE])
                       ELSE extractCatch(s, extractions[x]))
     /\ UNCHANGED <<acquires, sessions>>

\* The rest of the try block of extraction x returns (ok) or throws
ExtractBodyEnds(x, ok) ==
  /\ extractions[x].pc = "body"
  /\ ExtractStep(x, IF ok
                    THEN extractFinally(PState, [extractions[x] EXCEPT !.outcome = "ok"])
                    ELSE extractCatch(PState, extractions[x]))
  /\ UNCHANGED <<acquires, sessions>>

\* The releaseContext call of the finally block of extraction x resumes after
\* context.close(); extract ends
ExtractReleaseDone(x) ==
  /\ extractions[x].pc = "release"
  /\ ExtractStep(x, Both(releaseContextResume(PState,
                            ReleasingEntry(PState, extractions[x].browser)),
                         [extractions[x] EXCEPT !.pc = "done"]))
  /\ UNCHANGED <<acquires, sessions>>

\* browser.close() of the finally block of extraction x resolves: the browser
\* has emitted 'disconnected', whose handler removes it from the pool
ExtractCloseDone(x) ==
  /\ extractions[x].pc = "close"
  /\ ExtractStep(x, Both(removeBrowserFromPool(PState, extractions[x].browser),
                         [extractions[x] EXCEPT !.pc = "done"]))
  /\ UNCHANGED <<acquires, sessions>>

\* The timer of the queue fires for the task of extraction x: the task is
\* failed or retried, its operation goes on
ExtractTimedOut(x) ==
  /\ extractions[x].pc \notin {"idle", "done"}
  /\ ~extractions[x].timedOut
  /\ ExtractStep(x, Both(PState, [extractions[x] EXCEPT !.timedOut = TRUE]))
  /\ UNCHANGED <<acquires, sessions>>

\* The steps of MaxExtractions extract calls on the pool, with the health
\* check that replaces instances under them
NextExtract ==
  \/ \E ok \in BOOLEAN : InitLaunchDone(ok)
  \/ \E x \in ExtractionIds : ExtractCall(x)
  \/ \E st \in IdSeqs \ {<<>>} : CleanupCloseDone(st)
  \/ \E ok \in BOOLEAN : FillLaunchDone(ok)
  \/ \E ok \in BOOLEAN : CreateLaunchDone(ok)
  \/ WaitPollFinds
  \/ WaitTimesOut
  \/ \E un \in IdSeqs : HealthCheck(un)
  \/ \E un \in IdSeqs \ {<<>>} : HealthCloseDone(un)
  \/ \E un \in IdSeqs, ok \in BOOLEAN : HealthLaunchDone(un, ok)
  \/ \E x \in ExtractionIds, b \in 1..MaxLaunches : ExtractGotBrowser(x, b)
  \/ \E x \in ExtractionIds : ExtractGetBrowserThrows(x)
  \/ \E x \in ExtractionIds, ok \in BOOLEAN : ExtractContextDone(x, ok)
  \/ \E x \in ExtractionIds, ok \in BOOLEAN : ExtractBodyEnds(x, ok)
  \/ \E x \in ExtractionIds : ExtractReleaseDone(x)
  \/ \E x \in ExtractionIds : ExtractCloseDone(x)
  \/ \E x \in ExtractionIds : ExtractTimedOut(x)
  \/ PoolTick

(***************************************************************************)
(*                           RetryManager                                  *)
(* An error is what isRetryable reads of it: whether its message matches   *)
(* one of the nonRetryablePatterns (deny), whether it matches one of the   *)
(* alwaysRetryPatterns (retry), and its status (0 when it carries none).   *)
(***************************************************************************)

\* ---- bounds of the model ----
MaxRetryCalls == 2     \* executeWithRetry calls
MaxRetryTicks == 1     \* ticks of the retry manager's clock

\* ---- configuration (constructor options) ----
maxRetries == 3
budgetWindow == 1
budgetMaxRetries == 2

\* The errors an operation can reject with
RetryErrors ==
  [kind : {"operation"}, deny : BOOLEAN, retry : BOOLEAN, status : {0, 404, 429, 500}]

\* new Error('Retry budget exhausted. Too many retries in time window.'):
\* the message matches no pattern of either list and there is no status
BudgetError == [kind |-> "budget", deny |-> FALSE, retry |-> FALSE, status |-> 0]

\* A Capacity error the operation rejects with: getBrowser's new Error(
\* 'Unable to acquire browser from pool') or the breaker's 'Circuit breaker is
\* OPEN. ...'; neither message matches a pattern and there is no status
CapacityError == [kind |-> "capacity", deny |-> FALSE, retry |-> FALSE, status |-> 0]

NoError == [kind |-> "none", deny |-> FALSE, retry |-> FALSE, status |-> 0]

\* isRetryable with the alwaysRetryPatterns tested before the deny list
isRetryable_RetryFirst(error, attempt) ==
  IF attempt >= maxRetries THEN FALSE
  ELSE IF error.retry THEN TRUE
  ELSE IF error.deny THEN FALSE
  ELSE attempt < 2

\* isRetryable(error, attempt, context)
RetryManager_isRetryable(error, attempt) ==
  IF attempt >= maxRetries THEN FALSE
  ELSE IF error.deny THEN FALSE
  ELSE IF error.retry THEN TRUE
  ELSE IF error.status # 0 /\ (error.status >= 500 \/ error.status = 429) THEN TRUE
  ELSE IF error.status # 0 /\ error.status >= 400 /\ error.status < 500 THEN FALSE
  ELSE attempt < 2

\* The retry manager's state as one record
RState == [retries |-> rbRetries, calls |-> rCalls]

\* The catch block of executeWithRetry for call c and the error caught
catchBlock(r, c, error) ==
  LET a == r.calls[c].attempt
      r1 == [r EXCEPT !.calls[c].lastError = error,
                      !.retries = IF a > 0 THEN Append(@, 0) ELSE @,
                      !.calls[c].recorded = IF a > 0 THEN @ + 1 ELSE @]
  IN IF ~RetryManager_isRetryable(error, a)
     THEN [r1 EXCEPT !.calls[c].pc = "done", !.calls[c].outcome = "thrown"]
     ELSE [r1 EXCEPT !.calls[c].pc = "sleep"]

\* retryBudget.canRetry(): the timestamps it keeps
canRetry(retries) == SelectSeq(retries, LAMBDA age : age < budgetWindow)

\* executeWithRetry from the loop test to the call of the operation
tryBlock(r, c) ==
  LET a == r.calls[c].attempt
      r1 == [r EXCEPT !.retries = canRetry(@)]
  IN IF ~(a <= maxRetries)
     THEN [r EXCEPT !.calls[c].pc = "done", !.calls[c].outcome = "composite"]
     ELSE IF a > 0 /\ ~(Len(r1.retries) < budgetMaxRetries)
     THEN catchBlock([r1 EXCEPT !.calls[c].exhausted = TRUE], c, BudgetError)
     ELSE [(IF a > 0 THEN r1 ELSE r) EXCEPT !.calls[c].pc = "operation",
                                            !.calls[c].issued =
                                               IF a > 0 THEN @ + 1 ELSE @]

InitRetry ==
  /\ rbRetries = <<>>
  /\ rCalls = [c \in 1..MaxRetryCalls |->
                 [pc |-> "idle", attempt |-> 0, lastError |-> NoError,
                  outcome |-> "none", exhausted |-> FALSE,
                  issued |-> 0, recorded |-> 0]]
  /\ rTicks = 0

\* A step of the retry manager to the state r
RetryStep(r) ==
  /\ RetryOnly
  /\ rbRetries' = r.retries
  /\ rCalls' = r.calls
  /\ UNCHANGED rTicks

\* A caller calls executeWithRetry
ExecuteWithRetry(c) ==
  /\ rCalls[c].pc = "idle"
  /\ c > 1 => rCalls[c - 1].pc # "idle"
  /\ RetryStep(tryBlock(RState, c))

\* operation(attempt) resolves
AttemptResolves(c) ==
  /\ rCalls[c].pc = "operation"
  /\ RetryStep([RState EXCEPT !.calls[c].pc = "done",
                              !.calls[c].outcome = "resolved"])

\* operation(attempt) rejects with error
AttemptRejects(c, error) ==
  /\ rCalls[c].pc = "operation"
  /\ RetryStep(catchBlock(RState, c, error))

\* sleep(delay) resolves: attempt++ and the loop goes round
BackoffDone(c) ==
  /\ rCalls[c].pc = "sleep"
  /\ RetryStep(tryBlock([RState EXCEPT !.calls[c].attempt = @ + 1], c))

\* Time passes: every timestamp of the budget grows one tick older
RetryTick ==
  /\ rTicks < MaxRetryTicks
  /\ rTicks' = rTicks + 1
  /\ rbRetries' = [i \in 1..Len(rbRetries) |-> Min(rbRetries[i] + 1, budgetWindow)]
  /\ UNCHANGED rCalls
  /\ RetryOnly

NextRetry ==
  \/ \E c \in 1..MaxRetryCalls : ExecuteWithRetry(c)
  \/ \E c \in 1..MaxRetryCalls : AttemptResolves(c)
  \/ \E c \in 1..MaxRetryCalls, error \in RetryErrors \cup {CapacityError} :
        AttemptRejects(c, error)
  \/ \E c \in 1..MaxRetryCalls : BackoffDone(c)
  \/ RetryTick

(***************************************************************************)
(*                    RetryManager.calculateDelay                          *)
(* Delays are milliseconds.  factor and the intermediate delay are         *)
(* fractions [num, den] with den > 0, since factor need not be whole and   *)
(* the jitter scales the delay by a fraction; Math.floor makes the result  *)
(* whole.  Math.random() is one of k/RandomSteps, k < RandomSteps.         *)
(***************************************************************************)

\* ---- bounds of the model ----
MaxAttempt == 4        \* largest attempt index given to calculateDelay
RandomSteps == 4       \* values Math.random() takes

\* constructor options: 0 stands for an option left out (or falsy)
BaseDelayOptions == {0, 100, 101}
MaxDelayOptions == {0, 1000}
FactorOptions == {[num |-> 0, den |-> 1], [num |-> 2, den |-> 1],
                  [num |-> 3, den |-> 2]}

\* What calculateDelay reads of the error: its status (0 when it has none),
\* whether its message matches /rate.*limit/i, and error.retryAfter or the
\* retry-after header in seconds (Null when there is none)
DelayErrors == [status : {0, 429, 500}, rateLimitMessage : BOOLEAN,
                retryAfter : {Null, 2}]

\* No RetryManager constructed yet (the constructor never leaves baseDelay 0)
NoConfig == [baseDelay |-> 0, maxDelay |-> 0, factor |-> [num |-> 0, den |-> 1],
             jitter |-> FALSE]

\* No calculateDelay call made yet
NoDelay == [attempt |-> Null, delay |-> Null,
            error |-> [status |-> 0, rateLimitMessage |-> FALSE, retryAfter |-> Null]]

RECURSIVE Pow(_, _)
Pow(x, n) == IF n = 0 THEN 1 ELSE x * Pow(x, n - 1)

\* Math.pow(factor, attempt)
FracPow(f, n) == [num |-> Pow(f.num, n), den |-> Pow(f.den, n)]

RECURSIVE Gcd(_, _)
Gcd(a, b) == IF b = 0 THEN a ELSE Gcd(b, a % b)

\* A fraction in lowest terms
Lowest(a) ==
  LET g == Gcd(IF a.num < 0 THEN -a.num ELSE a.num, a.den)
  IN [num |-> a.num \div g, den |-> a.den \div g]

FracOf(n) == [num |-> n, den |-> 1]
FracTimes(a, b) ==
  LET x == Lowest([num |-> a.num, den |-> b.den])
      y == Lowest([num |-> b.num, den |-> a.den])
  IN [num |-> x.num * y.num, den |-> x.den * y.den]
FracLeq(a, b) == a.num * b.den <= b.num * a.den
FracPlus(a, b) ==
  Lowest([num |-> a.num * b.den + b.num * a.den, den |-> a.den * b.den])
FracMinus(a, b) ==
  Lowest([num |-> a.num * b.den - b.num * a.den, den |-> a.den * b.den])

\* Math.min, Math.max and Math.floor (of a fraction that is not negative)
FracMin(a, b) == IF FracLeq(a, b) THEN a ELSE b
FracMax(a, b) == IF FracLeq(a, b) THEN b ELSE a
Floor(a) == a.num \div a.den

\* constructor: options.x || default
RetryManagerOptions(base, maxd, f, jit) ==
  [baseDelay |-> IF base = 0 THEN 1000 ELSE base,
   maxDelay |-> IF maxd = 0 THEN 30000 ELSE maxd,
   factor |-> IF f.num = 0 THEN FracOf(2) ELSE f,
   jitter |-> jit]

\* BaseBackoff without the cap of maxDelay
BaseBackoff_NoCap(cfg, attempt) ==
  FracTimes(FracOf(cfg.baseDelay), FracPow(cfg.factor, attempt))

\* The base exponential backoff of calculateDelay
BaseBackoff(cfg, attempt) ==
  FracMin(FracTimes(FracOf(cfg.baseDelay), FracPow(cfg.factor, attempt)),
          FracOf(cfg.maxDelay))

\* The rate-limit test of calculateDelay
IsRateLimit(error) == error.status = 429 \/ error.rateLimitMessage

\* calculateDelay(attempt, error), with Math.random() = k / RandomSteps
calculateDelay(cfg, attempt, error, k) ==
  LET d0 == BaseBackoff(cfg, attempt)
      d1 == IF IsRateLimit(error)
            THEN IF error.retryAfter # Null
                 THEN FracOf(error.retryAfter * 1000)
                 ELSE FracMax(d0, FracOf(5000 * (attempt + 1)))
            ELSE d0
      jitterAmount == FracTimes(d1, [num |-> 2, den |-> 10])
      random == [num |-> k, den |-> RandomSteps]
      d2 == IF cfg.jitter
            THEN FracPlus(d1, FracMinus(FracTimes(random, FracTimes(jitterAmount, FracOf(2))),
                                        jitterAmount))
            ELSE d1
  IN Floor(d2)

InitDelay ==
  /\ dCfg = NoConfig
  /\ dLast = NoDelay

\* new RetryManager(options)
NewRetryManager(base, maxd, f, jit) ==
  /\ DelayOnly
  /\ dCfg = NoConfig
  /\ dCfg' = RetryManagerOptions(base, maxd, f, jit)
  /\ UNCHANGED dLast

\* A caller, or executeWithRetry's catch block, calls calculateDelay
CalculateDelay(attempt, error, k) ==
  /\ DelayOnly
  /\ dCfg # NoConfig
  /\ dLast' = [attempt |-> attempt, error |-> error,
               delay |-> calculateDelay(dCfg, attempt, error, k)]
  /\ UNCHANGED dCfg

NextDelay ==
  \/ \E base \in BaseDelayOptions, maxd \in MaxDelayOptions, f \in FactorOptions,
        jit \in BOOLEAN : NewRetryManager(base, maxd, f, jit)
  \/ \E attempt \in 0..MaxAttempt, error \in DelayErrors, k \in 0..(RandomSteps - 1) :
        CalculateDelay(attempt, error, k)

(***************************************************************************)
(*                           CacheManager                                  *)
(* The repository holds two CacheManager classes: lib/cache-manager.js,    *)
(* which the service and the unit tests import, and the one of part_007.   *)
(* The model constructs either (cImpl) and runs the same calls on it.      *)
(* An entry is [age, ttl]: age is the time since entry.timestamp, ttl is   *)
(* item.ttl in part_007; lib/cache-manager.js keeps no ttl in its entries, *)
(* there the field only remembers what the third argument of set asked.    *)
(* The value, the size estimate and the per-entry hit count are left out.  *)
(***************************************************************************)

\* ---- bounds of the model ----
MaxKeys == 3           \* distinct keys
MaxCacheOps == 6       \* get, set, delete, clear and cleanup calls
MaxCacheTicks == 3     \* ticks of the cache's clock

\* ---- configuration (constructor options) ----
maxSize == 2
maxAge == 2

CacheKeys == 1..MaxKeys
\* The third argument of set: 0 when it is not passed
TtlArgs == {0, 1}

\* The cache's state as one record
CState == [impl |-> cImpl, cache |-> cCache, accessOrder |-> accessOrder,
           stats |-> cStats]

\* updateAccessOrder leaving a key that is already listed where it is
updateAccessOrder_KeepPosition(order, key) ==
  IF \E i \in 1..Len(order) : order[i] = key THEN order ELSE Append(order, key)

\* updateAccessOrder(key)
updateAccessOrder(order, key) ==
  Append(SelectSeq(order, LAMBDA k : k # key), key)

\* this.cache.delete(key)
MapDelete(cache, key) == [k \in DOMAIN cache \ {key} |-> cache[k]]

\* delete(key)
cacheDelete(c, key) ==
  IF key \in DOMAIN c.cache
  THEN [c EXCEPT !.cache = MapDelete(@, key),
                 !.accessOrder = SelectSeq(@, LAMBDA k : k # key)]
  ELSE c

\* evictLRU(): lib/cache-manager.js deletes accessOrder[0] through delete(),
\* part_007 shifts accessOrder and deletes the key from the map
evictLRU(c) ==
  IF Len(c.accessOrder) = 0 THEN c
  ELSE LET lruKey == Head(c.accessOrder)
           c1 == IF c.impl = "lib" THEN cacheDelete(c, lruKey)
                 ELSE [c EXCEPT !.accessOrder = Tail(@),
                                !.cache = MapDelete(@, lruKey)]
       IN [c1 EXCEPT !.stats.evictions = @ + 1]

\* The test of set that calls evictLRU, with > for >=
NeedsEviction_OffByOne(c, key) ==
  Cardinality(DOMAIN c.cache) > maxSize /\ key \notin DOMAIN c.cache

\* The test of set that calls evictLRU
NeedsEviction(c, key) ==
  Cardinality(DOMAIN c.cache) >= maxSize /\ key \notin DOMAIN c.cache

\* set(key, value, ttl): ttl || this.maxAge
cacheSet(c, key, ttl) ==
  LET c1 == IF NeedsEviction(c, key) THEN evictLRU(c) ELSE c
      entry == [age |-> 0, ttl |-> IF ttl # 0 THEN ttl ELSE maxAge]
  IN [c1 EXCEPT !.cache = [k \in DOMAIN c1.cache \cup {key} |->
                             IF k = key THEN entry ELSE c1.cache[k]],
                !.accessOrder = updateAccessOrder(@, key)]

\* The expiry test: Date.now() - entry.timestamp > this.maxAge in
\* lib/cache-manager.js, isExpired(item) in part_007
isExpired(impl, entry) ==
  IF impl = "lib" THEN entry.age > maxAge ELSE entry.age > entry.ttl

\* get(key)
cacheGet(c, key) ==
  IF key \notin DOMAIN c.cache
  THEN [c EXCEPT !.stats.misses = @ + 1]
  ELSE IF isExpired(c.impl, c.cache[key])
  THEN [cacheDelete(c, key) EXCEPT !.stats.misses = @ + 1]
  ELSE [c EXCEPT !.accessOrder = updateAccessOrder(@, key),
                 !.stats.hits = @ + 1]

\* clear()
cacheClear(c) == [c EXCEPT !.cache = <<>>, !.accessOrder = <<>>]

\* cleanup(): delete(key) for every expired entry
RECURSIVE cleanup(_, _)
cleanup(c, keys) ==
  IF keys = {} THEN c
  ELSE LET key == CHOOSE k \in keys : TRUE
       IN cleanup(IF key \in DOMAIN c.cache /\ isExpired(c.impl, c.cache[key])
                  THEN cacheDelete(c, key) ELSE c,
                  keys \ {key})

InitCache ==
  /\ cImpl = "none"
  /\ cCache = <<>>
  /\ accessOrder = <<>>
  /\ cStats = [hits |-> 0, misses |-> 0, evictions |-> 0]
  /\ cRecency = <<>>
  /\ cOps = 0
  /\ cTicks = 0

\* One call on the constructed cache, taking it to the state c
CacheStep(c) ==
  /\ cImpl # "none"
  /\ cOps < MaxCacheOps
  /\ cOps' = cOps + 1
  /\ cCache' = c.cache
  /\ accessOrder' = c.accessOrder
  /\ cStats' = c.stats
  /\ UNCHANGED <<cImpl, cTicks>>
  /\ CacheOnly

\* new CacheManager(options) of one of the two classes
NewCacheManager(impl) ==
  /\ cImpl = "none"
  /\ cImpl' = impl
  /\ UNCHANGED <<cCache, accessOrder, cStats, cRecency, cOps, cTicks>>
  /\ CacheOnly

CacheGet(key) ==
  /\ CacheStep(cacheGet(CState, key))
  /\ cRecency' = IF cStats'.hits > cStats.hits
                  THEN Append(SelectSeq(cRecency, LAMBDA k : k # key), key)
                  ELSE cRecency

CacheSet(key, ttl) ==
  /\ CacheStep(cacheSet(CState, key, ttl))
  /\ cRecency' = Append(SelectSeq(cRecency, LAMBDA k : k # key), key)

CacheDelete(key) ==
  /\ CacheStep(cacheDelete(CState, key))
  /\ UNCHANGED cRecency

CacheClear ==
  /\ CacheStep(cacheClear(CState))
  /\ UNCHANGED cRecency

\* The interval timer runs cleanup()
CacheCleanup ==
  /\ CacheStep(cleanup(CState, DOMAIN cCache))
  /\ UNCHANGED cRecency

\* Time passes: every entry grows one tick older
CacheTick ==
  /\ cImpl # "none"
  /\ cTicks < MaxCacheTicks
  /\ cTicks' = cTicks + 1
  /\ cCache' = [k \in DOMAIN cCache |->
                  [cCache[k] EXCEPT !.age = Min(@ + 1, maxAge + 1)]]
  /\ UNCHANGED <<cImpl, accessOrder, cStats, cRecency, cOps>>
  /\ CacheOnly

NextCache ==
  \/ \E impl \in {"lib", "part_007"} : NewCacheManager(impl)
  \/ CacheCleanup
  \/ \E key \in CacheKeys : CacheGet(key)
  \/ \E key \in CacheKeys, ttl \in TtlArgs : CacheSet(key, ttl)
  \/ \E key \in CacheKeys : CacheDelete(key)
  \/ CacheClear
  \/ CacheTick

\* The steps of a loaded pool: MaxCallers acquires, releases and time
NextPoolLoaded ==
  \/ acquires < MaxCallers /\ GetBrowserCall
  \/ \E st \in IdSeqs \ {<<>>} : CleanupCloseDone(st)
  \/ \E ok \in BOOLEAN : FillLaunchDone(ok)
  \/ WaitPollFinds
  \/ WaitTimesOut
  \/ \E b \in 1..MaxLaunches : GetContextCall(b)
  \/ \E b \in 1..MaxLaunches, ok \in BOOLEAN : NewContextDone(b, ok)
  \/ \E c \in Entries : ReleaseCall(c)
  \/ \E c \in Entries : ContextCloseDone(c)
  \/ PoolTick

\* The steps of MaxCallers sessions from their grant to their release, by
\* the caller or by the lifetime timer
NextPoolLeak ==
  \/ \E ok \in BOOLEAN : InitLaunchDone(ok)
  \/ acquires < MaxCallers /\ GetBrowserCall
  \/ \E ok \in BOOLEAN : FillLaunchDone(ok)
  \/ \E b \in 1..MaxLaunches : GetContextCall(b)
  \/ \E b \in 1..MaxLaunches, ok \in BOOLEAN : NewContextDone(b, ok)
  \/ \E c \in Entries : ReleaseCall(c)
  \/ \E c \in Entries : ContextTimer(c)
  \/ \E c \in Entries : ContextCloseDone(c)

\* The steps of the sessions and of what destroys instances: the stale
\* cleanup of getBrowser and the shrink of checkMemoryPressure
NextPoolDestroy ==
  \/ \E ok \in BOOLEAN : InitLaunchDone(ok)
  \/ acquires < MaxRounds /\ GetBrowserCall
  \/ \E st \in IdSeqs \ {<<>>} : CleanupCloseDone(st)
  \/ \E ok \in BOOLEAN : FillLaunchDone(ok)
  \/ \E ok \in BOOLEAN : CreateLaunchDone(ok)
  \/ WaitPollFinds
  \/ WaitTimesOut
  \/ \E b \in 1..MaxLaunches : GetContextCall(b)
  \/ \E b \in 1..MaxLaunches, ok \in BOOLEAN : NewContextDone(b, ok)
  \/ \E c \in Entries : ReleaseCall(c)
  \/ \E c \in Entries : ContextCloseDone(c)
  \/ MemoryPressure
  \/ \E b \in 1..MaxLaunches : MemoryCloseDone(b)
  \/ PoolTick

(***************************************************************************)
(*                      CacheManager.generateKey                           *)
(* The static method is the same in lib/cache-manager.js and part_007.     *)
(* An options object is the sequence of its own properties, <<name,        *)
(* value>>, in the order they were written, which is the order              *)
(* JSON.stringify and Object.keys follow.  A string that JSON.stringify    *)
(* returns is the sequence of its tokens: name, value, name, value, ...    *)
(* The MD5 digest of a string is the string under the tag "md5": equal     *)
(* strings have equal digests, and collisions are left out.                *)
(***************************************************************************)

\* ---- bounds of the model ----
MaxOptions == 2        \* properties of an options object

VideoIds == {"abc123", "xyz789"}
OptionNames == {"language", "quality", "transcriptType"}
OptionValues == {"en", "high"}

\* The options objects: at most MaxOptions properties, no name twice
OptionObjects ==
  UNION {{o \in [1..n -> OptionNames \X OptionValues] :
            \A i, j \in 1..n : i # j => o[i][1] # o[j][1]} : n \in 0..MaxOptions}

\* options[name] || dflt
OptionOr(options, name, dflt) ==
  IF \E i \in 1..Len(options) : options[i][1] = name
  THEN LET i == CHOOSE i \in 1..Len(options) : options[i][1] = name
       IN options[i][2]
  ELSE dflt

\* JSON.stringify(object)
JSONstringify(object) ==
  [i \in 1..(2 * Len(object)) |->
     object[(i + 1) \div 2][IF i % 2 = 1 THEN 1 ELSE 2]]

\* createHash('md5').update(string).digest('hex')
Md5(string) == <<"md5", string>>

\* generateKey hashing the options object as it was given
generateKey_HashesOptions(videoId, options) ==
  Md5(JSONstringify(<<<<"v", videoId>>>> \o options))

\* static generateKey(videoId, options = {})
generateKey(videoId, options) ==
  LET keyData == << <<"v", videoId>>,
                    <<"l", OptionOr(options, "language", "en")>>,
                    <<"q", OptionOr(options, "quality", "auto")>>,
                    <<"t", OptionOr(options, "transcriptType", "auto")>> >>
      keyString == JSONstringify(keyData)
  IN Md5(keyString)

InitKey == kCalls = <<>>

\* A caller calls CacheManager.generateKey
GenerateKey(videoId, options) ==
  /\ KeyOnly
  /\ kCalls' = (IF kCalls = <<>> THEN <<>> ELSE <<kCalls[Len(kCalls)]>>) \o
                 <<[videoId |-> videoId, options |-> options,
                    key |-> generateKey(videoId, options)]>>

NextKey ==
  \E videoId \in VideoIds, options \in OptionObjects : GenerateKey(videoId, options)

Init ==
  /\ InitQueue /\ InitBreaker /\ InitPool /\ InitRetry /\ InitDelay /\ InitCache
  /\ InitKey /\ InitExtract

InitLoaded ==
  /\ InitQueue /\ InitBreaker /\ InitPoolLoaded /\ InitRetry /\ InitDelay
  /\ InitCache /\ InitKey /\ InitExtract

SpecQueue == Init /\ [][NextQueue]_vars

\* The queue with its timers firing: the timer enqueue sets for every task and
\* the timer processQueue sets when the rate limit stops it.  Nothing is
\* assumed of the callers' operations, which may never end.
SpecQueueTimers ==
  /\ Init
  /\ [][NextQueue]_vars
  /\ \A t \in TaskIds : WF_vars(Timeout(t))
  /\ WF_vars(ProcessQueueTimer)

SpecBreaker == Init /\ [][NextBreaker]_vars

SpecPoolSize == Init /\ [][NextPoolSize]_vars

SpecPoolSessions == Init /\ [][NextPoolSessions]_vars

SpecPoolLoaded == InitLoaded /\ [][NextPoolLoaded]_vars

SpecPoolDestroy == Init /\ [][NextPoolDestroy]_vars

\* Timers fire and context.close() settles
SpecPoolLeak ==
  /\ Init /\ [][NextPoolLeak]_vars
  /\ WF_vars(\E c \in Entries : ContextTimer(c))
  /\ WF_vars(\E c \in Entries : ContextCloseDone(c))

SpecExtract == Init /\ [][NextExtract]_vars

SpecRetry == Init /\ [][NextRetry]_vars

SpecDelay == Init /\ [][NextDelay]_vars

SpecCache == Init /\ [][NextCache]_vars

SpecKey == Init /\ [][NextKey]_vars

(***************************************************************************)
(*                 Properties of the RequestQueue                          *)
(***************************************************************************)

InBacklog(t) == \E i \in 1..Len(queue) : queue[i] = t

\* C1: in every reachable state the number of tasks in the in-flight
\* (processing) set is at most maxConcurrent.
C1_InFlightWithinCap == Cardinality(processing) <= maxConcurrent

\* C1 witness: every slot is taken while a task waits in the backlog.
C1_Witness == Cardinality(processing) = maxConcurrent /\ Len(queue) > 0

\* What C4 says the expiry of task t's timer leaves behind
TimedOutAsFailed(t) ==
  /\ item[t].status = "failed"
  /\ item[t].settled = "rejected"
  /\ item[t].error = "TIMEOUT"
  /\ t \notin processing

\* C4: when a task's timer expires before the task has completed, the task is
\* marked failed, its promise is rejected with a Timeout error and its
\* in-flight slot is freed.
C4_TimeoutFailsTask ==
  [][\A t \in TaskIds : Timeout(t) => TimedOutAsFailed(t)']_vars

\* C5: among the tasks never dispatched so far, no dispatch takes a task while
\* one of higher priority, or of the same priority and enqueued earlier, is
\* still waiting in the backlog.
C5_PriorityThenFifo == ~bypassed

\* C5 witness: a task accepted later has been dispatched ahead of a waiting
\* task of lower priority that was accepted earlier.
C5_Witness ==
  \E t, u \in TaskIds :
    /\ u < t
    /\ item[t].started
    /\ ~item[u].started /\ InBacklog(u)
    /\ item[t].priority > item[u].priority

\* The part of the queue's state that C6 says a rejected enqueue leaves alone
C6_Frame == <<queue, processing, completed, item, requests, qStats, pqTimers,
              nextId, running>>

\* C6: an enqueue on a backlog that already holds maxQueueSize tasks is
\* rejected with 'Queue is full' (no task is accepted), and the rejected call
\* changes neither the backlog, nor the in-flight set, nor any counter.
C6_FullQueueRejects ==
  [][/\ (Len(queue) >= maxQueueSize => nextId' = nextId)
     /\ (qRejected' => Len(queue) >= maxQueueSize /\ UNCHANGED C6_Frame)]_vars

\* C6 witness: an enqueue has just been rejected by a full backlog.
C6_Witness == qRejected /\ Len(queue) >= maxQueueSize

\* C21: the dispatches of the last rateLimitWindow never number more than
\* rateLimitMax, and every one of them, first dispatch or re-dispatch after a
\* retry, is on the limiter's record.
C21_DispatchesWithinRateLimit ==
  /\ Len(dispatched) <= rateLimitMax
  /\ FilterRequests(requests) = dispatched

\* C21 witness: the limiter holds back a waiting task although a slot is
\* free, and one of the dispatches it counts is the re-dispatch of a retry.
C21_Witness ==
  /\ Len(dispatched) = rateLimitMax
  /\ Len(queue) > 0 /\ Cardinality(processing) < maxConcurrent
  /\ pqTimers
  /\ \E t \in TaskIds : item[t].retries > 0 /\ t \in processing

\* What handleFailure owes a task whose operation failed with error: a retry
\* with one more on the retry counter and the priority one tier up, capped
\* at HIGH, or the terminal failure with that error
RetriedOrFailed(t, error) ==
  IF item[t].retries < item[t].maxRetries /\ isRetryable(error)
  THEN /\ item'[t].retries = item[t].retries + 1
       /\ item'[t].priority = Min(item[t].priority + 1, HIGH)
       /\ item'[t].status \in {"retrying", "processing"}
       /\ InBacklog(t)' \/ t \in processing'
       /\ item'[t].settled = item[t].settled
  ELSE /\ item'[t].status = "failed"
       /\ item'[t].settled = "rejected"
       /\ item'[t].error = error.code

\* C20: a task whose operation fails is retried (retry counter plus one,
\* priority one tier up, at most HIGH, back in the backlog) if the error is
\* retryable and retries are left, and else fails terminally, rejected with
\* that error.
C20_RetryEscalatesOrFails ==
  [][\A t \in TaskIds, error \in OpErrors :
       OpFails(t, error) => RetriedOrFailed(t, error)]_vars

\* C20 for the tasks that are in flight and whose timer has not fired
RetryEscalatesOrFails_InFlight ==
  [][\A t \in TaskIds, error \in OpErrors :
       (/\ OpFails(t, error)
        /\ item[t].status = "processing" /\ item[t].timer /\ running[t] = 1)
         => RetriedOrFailed(t, error)]_vars

\* An operation of task t ends, well or badly
OperationEnds(t) == OpSucceeds(t) \/ \E error \in OpErrors : OpFails(t, error)

\* C26: when an operation of a task that has timed out ends, the task's
\* promise, its status and the completed and failed counters stay as they
\* are and no entry leaves the in-flight set.
C26_LateOutcomeDiscarded ==
  [][\A t \in TaskIds :
       (item[t].timedOut /\ OperationEnds(t)) =>
         /\ item'[t].settled = item[t].settled
         /\ item'[t].status = item[t].status
         /\ qStats'.completed = qStats.completed
         /\ qStats'.failed = qStats.failed
         /\ processing \subseteq processing']_vars

\* C27: every task enqueue accepted has its promise settled in the end and is
\* then out of the in-flight set, provided only that the timers fire.
C27_EveryTaskSettles ==
  \A t \in TaskIds :
    (item[t].settled = "pending") ~>
      (item[t].settled \in {"resolved", "rejected"} /\ t \notin processing)

\* The operations of the tasks of S that were started and have not ended
RECURSIVE Running(_)
Running(S) ==
  IF S = {} THEN 0
  ELSE LET t == CHOOSE t \in S : TRUE IN running[t] + Running(S \ {t})

\* C28 as stated: the operations the queue has started and that have not
\* ended never number more than maxConcurrent.
C28_OperationsWithinCap == Running(TaskIds) <= maxConcurrent

\* C28 as amended: the same, not counting the operations of tasks that have
\* timed out, which go on running after their slot is freed.
C28_LiveOperationsWithinCap ==
  Running({t \in TaskIds : ~item[t].timedOut}) <= maxConcurrent

\* C28 witness: maxConcurrent operations of tasks that have not timed out are
\* running next to an operation of a task that has.
C28_Witness ==
  /\ Running({t \in TaskIds : ~item[t].timedOut}) = maxConcurrent
  /\ Running(TaskIds) > maxConcurrent

\* C29: the backlog never holds more than maxQueueSize tasks, re-inserted
\* retries included.
C29_BacklogWithinCap == Len(queue) <= maxQueueSize

\* C30: no task is in the backlog twice, and none is in the backlog and in
\* the in-flight set at once.
C30_OnePlacePerTask ==
  /\ \A i, j \in 1..Len(queue) : i # j => queue[i] # queue[j]
  /\ \A i \in 1..Len(queue) : queue[i] \notin processing

\* A task that is COMPLETED or FAILED keeps that status
TerminalIsFinal ==
  \A t \in TaskIds :
    item[t].status \in {"completed", "failed"} => item'[t].status = item[t].status

\* C31: the completed and failed counters together never exceed the number of
\* tasks accepted, and a task that is COMPLETED or FAILED never changes its
\* status again.
C31_OneTerminalStatus ==
  /\ [](qStats.completed + qStats.failed <= nextId - 1)
  /\ [][TerminalIsFinal]_vars

(***************************************************************************)
(*                 Properties of the CircuitBreaker                        *)
(***************************************************************************)

\* Steps of the breaker, told apart by the totals they bump
IsExecuteStep == metrics'.totalRequests = metrics.totalRequests + 1
IsFailureStep == metrics'.totalFailures = metrics.totalFailures + 1
IsSuccessStep == metrics'.totalSuccesses = metrics.totalSuccesses + 1

LastChange == metrics.stateChanges[Len(metrics.stateChanges)]

\* C7: in CLOSED a failure opens the circuit exactly when it is the
\* failureThreshold-th consecutive failure (fewer leave it CLOSED), nothing
\* else opens it, and a success leaves it CLOSED with the failure counter 0.
C7_ClosedOpensAtThreshold ==
  [][state = "CLOSED" =>
       /\ state' \in {"CLOSED", "OPEN"}
       /\ (state' = "OPEN" => IsFailureStep)
       /\ (IsFailureStep => (state' = "OPEN" <=> consecFail + 1 >= failureThreshold))
       /\ (IsSuccessStep => state' = "CLOSED" /\ failures' = 0)]_vars

\* C7 witness: the circuit opened from CLOSED although a success had reset
\* the count of an earlier failure.
C7_Witness ==
  /\ state = "OPEN"
  /\ metrics.stateChanges = <<[from |-> "CLOSED", to |-> "OPEN"]>>
  /\ metrics.totalSuccesses >= 1
  /\ metrics.totalFailures > failureThreshold

\* C8: while OPEN, an execute call made before resetTimeout has elapsed since
\* the circuit opened is rejected without invoking the operation, and a call
\* made once it has elapsed moves the circuit to HALF_OPEN and invokes it.
C8_OpenRejectsUntilTimeout ==
  [][(state = "OPEN" /\ IsExecuteStep) =>
       IF bNow < openedAt + resetTimeout
       THEN state' = "OPEN" /\ bPending' = bPending /\ bLast' = "rejected"
       ELSE state' = "HALF_OPEN" /\ bPending' = bPending + 1 /\ bLast' = "invoked"]_vars

\* C9: in HALF_OPEN a success closes the circuit exactly when it is the third
\* consecutive one, no other outcome closes it, and a failure reopens it
\* with the failure and the half-open success counters at zero.
C9_HalfOpenClosesAfterThree ==
  [][state = "HALF_OPEN" =>
       /\ (IsFailureStep => state' = "OPEN" /\ failures' = 0 /\ successes' = 0)
       /\ (IsSuccessStep => /\ state' \in {"HALF_OPEN", "CLOSED"}
                            /\ (state' = "CLOSED" <=>
                                  consecSucc + 1 >= halfOpenSuccesses))
       /\ (state' = "CLOSED" /\ metrics' # metrics => IsSuccessStep)]_vars

\* C9 witness: the circuit has just closed from HALF_OPEN.
C9_Witness ==
  /\ state = "CLOSED"
  /\ Len(metrics.stateChanges) > 0
  /\ LastChange = [from |-> "HALF_OPEN", to |-> "CLOSED"]

AllowedTransitions ==
  { [from |-> "CLOSED", to |-> "OPEN"], [from |-> "OPEN", to |-> "HALF_OPEN"],
    [from |-> "HALF_OPEN", to |-> "CLOSED"], [from |-> "HALF_OPEN", to |-> "OPEN"] }

\* C10: every transition the breaker takes and logs because of an execution
\* outcome is CLOSED->OPEN, OPEN->HALF_OPEN, HALF_OPEN->CLOSED or
\* HALF_OPEN->OPEN.
C10_OnlyAllowedTransitions ==
  \A i \in 1..Len(metrics.stateChanges) :
    metrics.stateChanges[i] \in AllowedTransitions

\* C22: an execute call that is rejected because the circuit is OPEN adds one
\* to the total of requests and leaves the total of failures, the failure
\* counter, the consecutive failures, the state and the next-retry time as
\* they were.
C22_RejectionCountsRequestOnly ==
  [][(IsExecuteStep /\ state = "OPEN" /\ bPending' = bPending) =>
       /\ metrics'.totalRequests = metrics.totalRequests + 1
       /\ metrics'.totalFailures = metrics.totalFailures
       /\ failures' = failures
       /\ consecFail' = consecFail
       /\ state' = state
       /\ nextAttemptTime' = nextAttemptTime]_vars

\* C22 witness: the last execute call was rejected by the OPEN circuit, so
\* that the requests outnumber the outcomes and the operations in flight.
C22_Witness ==
  /\ state = "OPEN"
  /\ bLast = "rejected"
  /\ metrics.totalRequests >
       metrics.totalFailures + metrics.totalSuccesses + bPending

\* What reset leaves behind
AfterReset ==
  /\ state = "CLOSED"
  /\ failures = 0
  /\ successes = 0
  /\ lastFailureTime = Null
  /\ nextAttemptTime = Null
  /\ ~StillOpen(BState, bNow)
  /\ executeStart(BState, bNow).state = "CLOSED"

\* C23: reset, called in CLOSED, OPEN or HALF_OPEN, leaves the breaker CLOSED
\* with the failure and half-open success counters 0 and the last-failure and
\* next-retry times cleared, a state in which execute invokes its operation.
C23_ResetCloses == [][Reset => AfterReset']_vars

\* C23 witness: reset has closed a circuit that the failures had opened and
\* that was rejecting calls, before resetTimeout had elapsed.
C23_Witness ==
  /\ state = "CLOSED"
  /\ nextAttemptTime = Null
  /\ Len(metrics.stateChanges) > 0
  /\ LastChange.to = "OPEN"
  /\ bNow < openedAt + resetTimeout
  /\ bLast = "rejected"

\* C34: while the circuit is OPEN the outcome of an operation (which was
\* started before the circuit opened) changes neither the state nor the
\* next-retry time, so that the next-retry time stays resetTimeout after the
\* moment the circuit opened.
C34_LateOutcomeKeepsOpen ==
  /\ [](state = "OPEN" => nextAttemptTime = openedAt + resetTimeout)
  /\ [][(state = "OPEN" /\ (IsFailureStep \/ IsSuccessStep)) =>
          (state' = "OPEN" /\ nextAttemptTime' = nextAttemptTime)]_vars

\* C35: the log holds every change of the state: it starts from CLOSED, each
\* entry's 'from' is the entry before's 'to', and the last entry's 'to' is
\* the current state (CLOSED while the log is empty).
C35_LogIsComplete ==
  LET log == metrics.stateChanges IN
    /\ \A i \in 2..Len(log) : log[i].from = log[i - 1].to
    /\ Len(log) > 0 => log[1].from = "CLOSED" /\ log[Len(log)].to = state
    /\ Len(log) = 0 => state = "CLOSED"

(***************************************************************************)
(*                   Properties of the BrowserPool                         *)
(***************************************************************************)

\* C2: in every reachable state the number of instances in the pool is at
\* least minInstances and at most maxInstances.
C2_PoolSizeWithinBounds ==
  minInstances <= Len(pool) /\ Len(pool) <= maxInstances

\* The upper half of C2 alone
PoolSizeAtMostMax == Len(pool) <= maxInstances

\* The lower half of C2 once the initial fill is over
PoolSizeAtLeastMinAfterFill ==
  ~BagIn([k |-> "initLaunch"], frames) => minInstances <= Len(pool)

\* C3: in every reachable state no instance of the pool hosts more than 5
\* open sessions.
C3_SessionsWithinCap ==
  \A i \in 1..Len(pool) : pool[i].contexts <= maxContextsPerBrowser

\* An acquire is blocked in waitForAvailableBrowser
Waiting == BagIn([k |-> "gbWait"], frames)

\* The pool is at maxInstances and no instance has a free session slot
AtCapacity ==
  /\ Len(pool) >= maxInstances
  /\ \A i \in 1..Len(pool) : ~HasCapacity(pool[i])

\* An acquire that finds the pool at capacity blocks and creates nothing
BlocksAtCapacity ==
  (acquires' = acquires + 1 /\ AtCapacity /\ StaleInstances(PState) = <<>>)
    => (frames' = frames (+) SetToBag({[k |-> "gbWait"]}) /\ pool' = pool)

\* A blocked acquire that ends, with a browser or with the capacity error,
\* leaves the pool as it is
WaitEndsWithoutGrowth ==
  CopiesIn([k |-> "gbWait"], frames') < CopiesIn([k |-> "gbWait"], frames)
    => pool' = [i \in 1..Len(pool) |->
                 [pool[i] EXCEPT !.idle = IF pool'[i].idle = 0 THEN 0 ELSE @]]

\* Once a session slot is free again the poll of a blocked acquire finds an
\* instance
ReleaseUnblocks ==
  (Waiting /\ Len(pool) >= maxInstances /\ \E i \in 1..Len(pool) : HasCapacity(pool[i]))
    => findAvailableBrowser(PState) # 0

\* C18: at maxInstances with no free session slot an acquire blocks; once a
\* slot has been released the blocked acquire gets an instance, and it ends,
\* granted or failed, without the pool growing.
C18_BlockedAcquire ==
  /\ []ReleaseUnblocks
  /\ [][BlocksAtCapacity /\ WaitEndsWithoutGrowth]_vars

\* C19: every granted session is released in the end, by its lifetime timer
\* if its caller never does, and the session counts of the instances return
\* to 0 (the model grants a bounded number of sessions).
C19_LeakedSessionsFreed ==
  <>[](/\ activeContexts = EmptyBag
       /\ \A i \in 1..Len(pool) : pool[i].contexts = 0)

\* The lifetime timer of a session its caller never released has fired and
\* the release is waiting for context.close()
C19_Witness ==
  \E c \in Entries :
    /\ BagIn(c, activeContexts)
    /\ ~c.timer /\ ~c.callerDone /\ c.closers = 1
    /\ c.b \in PoolIds(PState)
    /\ pool[InstanceOf(PState, c.b)].contexts >= 1

\* The sessions created from instance b that activeContexts still holds
OpenSessions(b) ==
  BagCardinality([c \in {x \in BagToSet(activeContexts) : x.b = b /\ x.inMap}
                    |-> activeContexts[c]])

\* C36: the contexts counter of every instance of the pool is the number of
\* sessions created from it and not yet released, so that a session released
\* by its caller and by its lifetime timer is counted down once.
C36_CounterMatchesOpenSessions ==
  \A i \in 1..Len(pool) : pool[i].contexts = OpenSessions(pool[i].id)

\* destroyInstance has just been called for instance b by the stale cleanup
\* or by the memory-pressure shrink: a call suspended in the browser.close()
\* of b has appeared
DestroyStarts(b) ==
  \/ CopiesIn([k |-> "mpClose", b |-> b], frames')
       > CopiesIn([k |-> "mpClose", b |-> b], frames)
  \/ \E st \in IdSeqs \ {<<>>} :
       /\ Head(st) = b
       /\ CopiesIn([k |-> "gbClose", rest |-> st], frames')
            > CopiesIn([k |-> "gbClose", rest |-> st], frames)

\* C37: neither the stale cleanup nor the memory-pressure shrink destroys an
\* instance while a session created from it is still open.
C37_NoDestroyWithOpenSession ==
  [][\A b \in 1..MaxLaunches : DestroyStarts(b) => OpenSessions(b) = 0]_vars

\* C37 for the memory-pressure shrink alone
ShrinkSparesOpenSessions ==
  [][\A b \in 1..MaxLaunches :
       CopiesIn([k |-> "mpClose", b |-> b], frames')
         > CopiesIn([k |-> "mpClose", b |-> b], frames)
       => OpenSessions(b) = 0]_vars

(***************************************************************************)
(*               Properties of TranscriptExtractor.extract                 *)
(***************************************************************************)

\* The extractions that hold a session of instance b: in their try block
\* after getContext, or suspended in the releaseContext of their finally
Holders(b) ==
  {x \in ExtractionIds : /\ extractions[x].contextId
                         /\ extractions[x].browser = b
                         /\ extractions[x].pc \in {"body", "release"}}

C39_CleanupSparesPoolInstance ==
  \A x \in ExtractionIds : extractions[x].closed = 0

(***************************************************************************)
(*                   Properties of the RetryManager                        *)
(***************************************************************************)

\* C11: the timestamps of the retry budget that lie inside the window never
\* number more than budgetMaxRetries.
C11_BudgetWithinCap ==
  Len(SelectSeq(rbRetries, LAMBDA age : age < budgetWindow)) <= budgetMaxRetries

\* C12: a call that found the budget exhausted when its retry was due has
\* ended with the budget error: it is neither waiting in a backoff nor
\* running its operation.
C12_ExhaustedFailsFast ==
  \A c \in 1..MaxRetryCalls :
    rCalls[c].exhausted =>
      /\ rCalls[c].pc = "done"
      /\ rCalls[c].outcome = "thrown"
      /\ rCalls[c].lastError = BudgetError

\* C13: a call whose operation has failed at attempt maxRetries, all retries
\* used, ends with the composite error, which carries lastError.
C13_ExhaustionThrowsComposite ==
  \A c \in 1..MaxRetryCalls :
    (/\ rCalls[c].pc = "done"
     /\ rCalls[c].attempt >= maxRetries
     /\ rCalls[c].lastError.kind = "operation"
     /\ rCalls[c].outcome # "resolved")
      => rCalls[c].outcome = "composite"

\* C14: a call whose operation failed with an error of the deny list has
\* ended by throwing that error, whatever the attempt and whatever else the
\* error matches.
C14_TerminalNeverRetried ==
  \A c \in 1..MaxRetryCalls :
    rCalls[c].lastError.deny =>
      /\ rCalls[c].pc = "done"
      /\ rCalls[c].outcome = "thrown"

C14_Witness ==
  \E c \in 1..MaxRetryCalls :
    /\ rCalls[c].lastError.deny /\ rCalls[c].lastError.retry
    /\ rCalls[c].lastError.status = 500
    /\ rCalls[c].attempt = 1
    /\ rCalls[c].pc = "done"

\* The catch block of call c catches a Capacity error in this step: the
\* operation rejects with one, or the budget is found exhausted when the
\* backoff ends
CatchesCapacityError(c) ==
  \/ AttemptRejects(c, CapacityError)
  \/ /\ BackoffDone(c)
     /\ rCalls[c].attempt + 1 <= maxRetries
     /\ Len(canRetry(rbRetries)) >= budgetMaxRetries

\* C32: a Capacity error caught inside executeWithRetry is rethrown at once:
\* the call ends with it, without a backoff wait or a further attempt, and no
\* timestamp is added to the retry budget.
C32_CapacityErrorSurfaces ==
  [][\A c \in 1..MaxRetryCalls :
       CatchesCapacityError(c) =>
         /\ rCalls'[c].pc = "done"
         /\ rCalls'[c].outcome = "thrown"
         /\ rCalls'[c].lastError.kind \in {"capacity", "budget"}
         /\ rbRetries' \in {rbRetries, canRetry(rbRetries)}]_vars

\* C33: a call that is not inside its operation has added one timestamp to the
\* retry budget for every retry it has issued (every invocation of the
\* operation with attempt >= 1), whether the retry succeeded or failed, and
\* none for the first attempt.
C33_EveryRetryRecordedOnce ==
  \A c \in 1..MaxRetryCalls :
    rCalls[c].pc # "operation" => rCalls[c].recorded = rCalls[c].issued

\* The last calculateDelay call had the jitter off and an error that is not
\* rate-limit-classified
PlainDelayCall ==
  /\ dLast # NoDelay
  /\ ~dCfg.jitter
  /\ ~IsRateLimit(dLast.error)

\* baseDelay x factor^n of the last call, as a fraction
Uncapped == FracTimes(FracOf(dCfg.baseDelay), FracPow(dCfg.factor, dLast.attempt))

\* C24 as stated: with the jitter off and an error that is not rate-limit-
\* classified the delay of attempt n equals min(baseDelay x factor^n, maxDelay)
\* and never exceeds maxDelay.
C24_DelayIsCappedExponential ==
  PlainDelayCall =>
    /\ IF FracLeq(Uncapped, FracOf(dCfg.maxDelay))
       THEN dLast.delay * Uncapped.den = Uncapped.num
       ELSE dLast.delay = dCfg.maxDelay
    /\ dLast.delay <= dCfg.maxDelay

\* C24 as amended: the delay is min(baseDelay x factor^n, maxDelay) rounded
\* down to a whole number of milliseconds, and never exceeds maxDelay.
C24_DelayIsFlooredCappedExponential ==
  PlainDelayCall =>
    /\ IF FracLeq(Uncapped, FracOf(dCfg.maxDelay))
       THEN /\ dLast.delay * Uncapped.den <= Uncapped.num
            /\ Uncapped.num < (dLast.delay + 1) * Uncapped.den
       ELSE dLast.delay = dCfg.maxDelay
    /\ dLast.delay <= dCfg.maxDelay

\* C24 witness: baseDelay 100, factor 3/2 and attempt 3 give 337, the 337.5
\* of the formula rounded down.
C24_Witness ==
  /\ PlainDelayCall
  /\ dCfg.baseDelay = 100 /\ dCfg.factor = [num |-> 3, den |-> 2]
  /\ dLast.attempt = 3
  /\ dLast.delay = 337

(***************************************************************************)
(*                   Properties of the CacheManager                        *)
(***************************************************************************)

\* C15: after every completed cache operation the cache holds at most
\* maxSize entries.
C15_SizeWithinCapacity == Cardinality(DOMAIN cCache) <= maxSize

\* A full cache after a set that evicted
C15_Witness ==
  /\ Cardinality(DOMAIN cCache) = maxSize
  /\ cStats.evictions >= 1
  /\ cOps = MaxCacheOps

\* The least recently used key of the cache: the present key whose last use
\* (set or get hit) lies furthest back
LeastRecentlyUsed ==
  cRecency[CHOOSE i \in 1..Len(cRecency) :
             /\ cRecency[i] \in DOMAIN cCache
             /\ \A j \in 1..(i - 1) : cRecency[j] \notin DOMAIN cCache]

\* C16: a set of a new key into a full cache removes exactly the least
\* recently used key, a get hit and a set both counting as a use; any other
\* set removes nothing.
C16_EvictsExactlyLRU ==
  [][\A key \in CacheKeys :
       (\E ttl \in TtlArgs : CacheSet(key, ttl)) =>
         IF Cardinality(DOMAIN cCache) >= maxSize /\ key \notin DOMAIN cCache
         THEN DOMAIN cCache' = (DOMAIN cCache \ {LeastRecentlyUsed}) \cup {key}
         ELSE DOMAIN cCache' = DOMAIN cCache \cup {key}]_vars

\* Keys 1 and 2 were set, key 1 was hit, and the set of key 3 evicted key 2
C16_Witness ==
  /\ DOMAIN cCache = {1, 3}
  /\ accessOrder = <<1, 3>>
  /\ cRecency = <<2, 1, 3>>
  /\ cStats = [hits |-> 1, misses |-> 0, evictions |-> 1]

\* C17: get on an entry older than the TTL that set was given for it (the
\* default TTL if none was given) deletes the entry and counts a miss and no
\* hit; get on any other entry leaves its age and TTL as they are.
C17_ExpiredGetIsMiss ==
  [][\A key \in CacheKeys :
       (CacheGet(key) /\ key \in DOMAIN cCache) =>
         IF cCache[key].age > cCache[key].ttl
         THEN /\ key \notin DOMAIN cCache'
              /\ cStats'.misses = cStats.misses + 1
              /\ cStats'.hits = cStats.hits
         ELSE /\ key \in DOMAIN cCache'
              /\ cCache'[key] = cCache[key]]_vars

\* C17 for the class of part_007 alone
ExpiredGetIsMiss_Part007 ==
  [][cImpl = "part_007" =>
     \A key \in CacheKeys :
       (CacheGet(key) /\ key \in DOMAIN cCache) =>
         IF cCache[key].age > cCache[key].ttl
         THEN /\ key \notin DOMAIN cCache'
              /\ cStats'.misses = cStats.misses + 1
              /\ cStats'.hits = cStats.hits
         ELSE /\ key \in DOMAIN cCache'
              /\ cCache'[key] = cCache[key]]_vars

\* The entries of the cache that are older than their own TTL
Expired == {k \in DOMAIN cCache : cCache[k].age > cCache[k].ttl}

\* What a cleanup call leaves: the entries that have not expired, as they
\* were, and an accessOrder that lists exactly their keys, each once
AfterCleanup ==
  /\ DOMAIN cCache' = DOMAIN cCache \ Expired
  /\ \A k \in DOMAIN cCache' : cCache'[k] = cCache[k]
  /\ {accessOrder'[i] : i \in 1..Len(accessOrder')} = DOMAIN cCache'
  /\ Len(accessOrder') = Cardinality(DOMAIN cCache')

\* C40: cleanup removes every entry older than its own TTL and no other,
\* whatever was read or written before, and leaves accessOrder holding
\* exactly the keys that remain, each once.
C40_CleanupRemovesExactlyExpired == [][CacheCleanup => AfterCleanup]_vars

\* C40 for the class of part_007 alone
CleanupRemovesExactlyExpired_Part007 ==
  [][(cImpl = "part_007" /\ CacheCleanup) => AfterCleanup]_vars

\* The properties of an options object, whatever their order
Properties(options) == {options[i] : i \in 1..Len(options)}

\* C25: two generateKey calls with the same video id and the same option
\* values return the same key, in whatever order the options were written.
C25_KeyIgnoresOptionOrder ==
  Len(kCalls) = 2 =>
    ((/\ kCalls[1].videoId = kCalls[2].videoId
      /\ Properties(kCalls[1].options) = Properties(kCalls[2].options))
       => kCalls[1].key = kCalls[2].key)

\* C25 witness: two calls gave the same two options in opposite orders.
C25_Witness ==
  /\ Len(kCalls) = 2
  /\ kCalls[1].videoId = kCalls[2].videoId
  /\ kCalls[1].options = <<<<"language", "en">>, <<"quality", "high">>>>
  /\ kCalls[2].options = <<<<"quality", "high">>, <<"language", "en">>>>
  /\ kCalls[1].key = kCalls[2].key

====
